---------------------------- MODULE Spec2Model ----------------------------
(***************************************************************************)
(* Model of the analyze endpoint of whatsapp-links-summary (the route      *)
(* handler POST with its helpers, as found in src/unnamed/part_001).       *)
(*                                                                         *)
(* Abstractions used throughout:                                           *)
(*  - A text is a sequence of tokens.  A token stands for one word of the  *)
(*    text; "_" is a run of blanks, "NL" a newline.  Index arithmetic on   *)
(*    strings (substring, match.index) is done on token positions.         *)
(*  - An instant is a number of seconds since 2024-01-01T00:00:00Z.  The   *)
(*    program only ever compares whole-second message instants with day    *)
(*    boundaries, so the millisecond part of 23:59:59.999 is dropped.      *)
(*  - The source file carries unresolved merge hunks.  side says which     *)
(*    half of every hunk is the code that runs ("HEAD" or "THEIRS");       *)
(*    helper functions that exist in one half only are available to both.  *)
(*  - tz is the offset (seconds east of UTC) of the server's local time,   *)
(*    which the local getters of Date depend on.                           *)
(***************************************************************************)
EXTENDS Integers, Sequences, FiniteSets, TLC

\* ------------------------------------------------------------------------
\* Bounds of the model
\* ------------------------------------------------------------------------
MaxLines == 3

MaxArchives == 2

MaxCollected == 32

MaxEntries == 3

MaxTime == 8

MaxSubmits == 2

\* ------------------------------------------------------------------------
\* Program constants
\* ------------------------------------------------------------------------
CONTEXT_CHARS == 100

ZENITH_SNIPPET == 300

MAX_LINKS == 30

MAX_CHARS == 12000

CurrentYear == 2025

SecondsPerDay == 86400

Null == << >>

Some(x) == << x >>

\* ------------------------------------------------------------------------
\* Calendar arithmetic behind Date.UTC and new Date(y, m, d, ...)
\* ------------------------------------------------------------------------
IsLeap(y) == (y % 4 = 0 /\ y % 100 # 0) \/ y % 400 = 0

DaysInMonthOf(y, m) ==
  IF m = 2 THEN (IF IsLeap(y) THEN 29 ELSE 28)
  ELSE IF m \in {4, 6, 9, 11} THEN 30 ELSE 31

DaysFromCivil(y, m, d) ==
  LET yy  == IF m <= 2 THEN y - 1 ELSE y
      era == yy \div 400
      yoe == yy - era * 400
      mp  == (m + 9) % 12
      doy == (153 * mp + 2) \div 5 + d - 1
      doe == yoe * 365 + yoe \div 4 - yoe \div 100 + doy
  IN  era * 146097 + doe - 719468

EpochDays == DaysFromCivil(2024, 1, 1)

\* Date.UTC(year, month-1, day, hour, minute, second), in seconds
DateUTC(y, m, d, h, mi, s) ==
  (DaysFromCivil(y, m, d) - EpochDays) * SecondsPerDay + h * 3600 + mi * 60 + s


\* ------------------------------------------------------------------------
\* State of one request
\* ------------------------------------------------------------------------
VARIABLES
  side,                 \* which half of the merge hunks runs
  tz,                   \* offset of the server's local time, seconds
  formDataOk,           \* whether request.formData() resolves
  files,                \* formData.getAll('files')
  startDateStr,         \* formData.get('startDate'), as an instant or Null
  endDateStr,           \* formData.get('endDate'), as an instant or Null
  pc,                   \* position of the handler
  startDate,            \* Date | null
  endDate,              \* Date | null
  fileIdx,              \* index of the archive being processed
  entryIdx,             \* index of the zip entry being processed
  i,                    \* index of the next line of the entry
  currentDate,          \* Date | null of the message in progress
  currentLine,          \* text of the message in progress
  messagesInRange,      \* per-entry counter
  messagesWithLinks,    \* per-entry counter
  chatFilesFound,       \* per-archive counter
  totalChatFilesFound,  \* per-request counter
  allLinksWithContext,  \* links collected so far
  uniqueLinksByURL,     \* result of the deduplication
  linksToProcess,       \* links handed to generateSummary
  processedLinks,       \* links placed in the prompt
  calls,                \* collaborator calls issued, in order
  response,             \* the HTTP response, or Null
  match,                \* capture groups handed to the date parser, or Null
  returned,             \* what the date parser returned for match
  suspended,            \* the request waiting at an await while this one runs
  loading,              \* state loading of the upload page
  processStep,          \* state processStep of the upload page
  timers,               \* progress timers of the page that are scheduled
  effectDeps,           \* [loading, processStep] as the progress effect last saw them
  submitPc,             \* position of handleSubmit of the page
  now,                  \* seconds since the page was mounted
  submits,              \* submissions made from the page
  pageError             \* state error of the upload page

vars == << side, tz, formDataOk, files, startDateStr, endDateStr, pc, startDate, endDate,
           fileIdx, entryIdx, i, currentDate, currentLine, messagesInRange,
           messagesWithLinks, chatFilesFound, totalChatFilesFound,
           allLinksWithContext, uniqueLinksByURL, linksToProcess,
           processedLinks, calls, response, match, returned, suspended,
           loading, processStep, timers, effectDeps, submitPc, now, submits, pageError >>

pageVars == << loading, processStep, timers, effectDeps, submitPc, now, submits, pageError >>

\* the page after it was mounted: useState(false), useState('idle'), and the
\* progress effect has run once and scheduled nothing
PageMounted ==
  /\ loading = FALSE
  /\ processStep = "idle"
  /\ timers = {}
  /\ effectDeps = << FALSE, "idle" >>
  /\ submitPc = "idle"
  /\ now = 0
  /\ submits = 0
  /\ pageError = ""

\* ------------------------------------------------------------------------
\* Local-time getters of Date
\* ------------------------------------------------------------------------
\* the calendar day (getFullYear, getMonth, getDate) of instant t in the
\* server's local time, as a day number
LocalDay(t) == (t + tz) \div SecondsPerDay

\* wall clock of the server: new Date()
Now == DateUTC(CurrentYear, 7, 1, 12, 0, 0)

\* ------------------------------------------------------------------------
\* datePattern: the timestamps that occur in the transcripts of the model
\* ------------------------------------------------------------------------
StampTable ==
  ( "[24/03/2024, 23:00:00]" :>
      [day |-> 24, month |-> 3, year |-> 2024, hour |-> 23, minute |-> 0,
       second |-> 0, bracketSlash |-> TRUE] ) @@
  ( "[25/03/2024, 14:30:45]" :>
      [day |-> 25, month |-> 3, year |-> 2024, hour |-> 14, minute |-> 30,
       second |-> 45, bracketSlash |-> TRUE] ) @@
  ( "[26/03/24, 01:00]" :>
      [day |-> 26, month |-> 3, year |-> 24, hour |-> 1, minute |-> 0,
       second |-> -1, bracketSlash |-> TRUE] ) @@
  ( "[31/02/2024, 10:00:00]" :>
      [day |-> 31, month |-> 2, year |-> 2024, hour |-> 10, minute |-> 0,
       second |-> 0, bracketSlash |-> TRUE] ) @@
  ( "22.9.2024, 14:33 -" :>
      [day |-> 22, month |-> 9, year |-> 2024, hour |-> 14, minute |-> 33,
       second |-> -1, bracketSlash |-> FALSE] )

\* line.match(datePattern): the pattern is not anchored, so the leftmost
\* timestamp anywhere in the line is the match; 0 when there is none
RECURSIVE datePatternIndex(_, _)
datePatternIndex(line, k) ==
  IF k > Len(line) THEN 0
  ELSE IF line[k] \in DOMAIN StampTable THEN k
  ELSE datePatternIndex(line, k + 1)

datePatternMatch(line) == datePatternIndex(line, 1) # 0

\* a validation that accepts every day up to 31 in every month
dateFromComponentsDay31(f) ==
  LET day     == f.day
      month   == f.month
      hour    == f.hour
      minute  == f.minute
      second  == IF f.second = -1 THEN 0 ELSE f.second
      \* new Date(year, month, 0) reads a year below 100 as 19xx
      jsYear  == IF f.year >= 0 /\ f.year <= 99 THEN 1900 + f.year
                 ELSE f.year
      daysInMonth == DaysInMonthOf(jsYear, month)
      year    == IF f.year < 100
                 THEN (IF f.year <= 49 THEN 2000 + f.year
                       ELSE 1900 + f.year)
                 ELSE f.year
  IN
  IF month < 1 \/ month > 12 THEN Null
  ELSE IF day < 1 \/ day > 31 THEN Null
  ELSE IF year < CurrentYear - 5 \/ year > CurrentYear + 1 THEN Null
  ELSE IF hour < 0 \/ hour > 23 \/ minute < 0 \/ minute > 59
          \/ second < 0 \/ second > 59 THEN Null
  ELSE IF side = "HEAD"
       THEN Some(DateUTC(year, month, day, hour, minute, second))
       ELSE LET parsedDate ==
                  DateUTC(year, month, day, hour, minute, second) - tz
            IN  IF parsedDate > Now THEN Null ELSE Some(parsedDate)

\* extractDateFromMessage after the pattern has matched: f holds the numbers
\* of the capture groups (second is -1 when the group did not take part)
dateFromComponents(f) ==
  LET day     == f.day
      month   == f.month
      hour    == f.hour
      minute  == f.minute
      second  == IF f.second = -1 THEN 0 ELSE f.second
      \* new Date(year, month, 0) reads a year below 100 as 19xx
      jsYear  == IF f.year >= 0 /\ f.year <= 99 THEN 1900 + f.year
                 ELSE f.year
      daysInMonth == DaysInMonthOf(jsYear, month)
      year    == IF f.year < 100
                 THEN (IF f.year <= 49 THEN 2000 + f.year
                       ELSE 1900 + f.year)
                 ELSE f.year
  IN
  IF month < 1 \/ month > 12 THEN Null
  ELSE IF day < 1 \/ day > daysInMonth THEN Null
  ELSE IF year < CurrentYear - 5 \/ year > CurrentYear + 1 THEN Null
  ELSE IF hour < 0 \/ hour > 23 \/ minute < 0 \/ minute > 59
          \/ second < 0 \/ second > 59 THEN Null
  ELSE IF side = "HEAD"
       THEN Some(DateUTC(year, month, day, hour, minute, second))
       ELSE LET parsedDate ==
                  DateUTC(year, month, day, hour, minute, second) - tz
            IN  IF parsedDate > Now THEN Null ELSE Some(parsedDate)

extractDateFromMessage(messageLine) ==
  LET k == datePatternIndex(messageLine, 1) IN
  IF k = 0 THEN Null
  ELSE dateFromComponents(StampTable[messageLine[k]])

\* ------------------------------------------------------------------------
\* Date-range tests
\* ------------------------------------------------------------------------
isSameOrAfterDate(date, compareToDate) == LocalDay(date) >= LocalDay(compareToDate)

isSameOrBeforeDate(date, compareToDate) == LocalDay(date) <= LocalDay(compareToDate)

\* the boundary POST builds from the startDate field
StartBoundary(str) ==
  IF str = Null THEN Null ELSE Some(LocalDay(str[1]) * SecondsPerDay)

\* the boundary POST builds from the endDate field (23:59:59.999)
EndBoundary(str) ==
  IF str = Null THEN Null
  ELSE Some(LocalDay(str[1]) * SecondsPerDay + SecondsPerDay - 1)

\* isAfterStart && isBeforeEnd with the day-granular helpers
DayInRange(date) ==
  /\ (startDate = Null \/ isSameOrAfterDate(date, startDate[1]))
  /\ (endDate = Null \/ isSameOrBeforeDate(date, endDate[1]))

\* (!startDate || currentDate >= startDate) && (!endDate || currentDate <= endDate)
InstantInRange(date) ==
  /\ (startDate = Null \/ date >= startDate[1])
  /\ (endDate = Null \/ date <= endDate[1])

\* ------------------------------------------------------------------------
\* Text helpers (String.prototype.trim, replace, substring)
\* ------------------------------------------------------------------------
Undefined == "undefined"

IsSpace(tok) == tok \in {"_", "NL"}

Min(a, b) == IF a <= b THEN a ELSE b

Max(a, b) == IF a >= b THEN a ELSE b

RECURSIVE TrimStart(_)
TrimStart(t) ==
  IF t = << >> THEN t
  ELSE IF IsSpace(Head(t)) THEN TrimStart(Tail(t)) ELSE t

RECURSIVE TrimEnd(_)
TrimEnd(t) ==
  IF t = << >> THEN t
  ELSE IF IsSpace(t[Len(t)]) THEN TrimEnd(SubSeq(t, 1, Len(t) - 1)) ELSE t

Trim(t) == TrimEnd(TrimStart(t))

\* number of leading blank tokens of t
RECURSIVE SpaceRun(_)
SpaceRun(t) ==
  IF t = << >> \/ ~IsSpace(Head(t)) THEN 0 ELSE 1 + SpaceRun(Tail(t))

\* position of the last newline among the first n tokens of t, 0 if none
RECURSIVE LastNewline(_, _)
LastNewline(t, n) ==
  IF n = 0 THEN 0 ELSE IF t[n] = "NL" THEN n ELSE LastNewline(t, n - 1)

\* text.replace(/\n\s*\n/g, '\n')
RECURSIVE CollapseBlankLines(_)
CollapseBlankLines(t) ==
  IF t = << >> THEN t
  ELSE IF Head(t) = "NL"
       THEN LET rest == Tail(t)
                k    == LastNewline(rest, SpaceRun(rest))
            IN  << "NL" >> \o CollapseBlankLines(SubSeq(rest, k + 1, Len(rest)))
       ELSE << Head(t) >> \o CollapseBlankLines(Tail(t))

\* text.replace(/^\s*\[\d{1,2}\/\d{1,2}\/\d{2,4}, \d{1,2}:\d{1,2}(?::\d{1,2})?\]\s*/, '')
CleanTimestamp(t) ==
  LET u == TrimStart(t) IN
  IF u # << >> /\ Head(u) \in DOMAIN StampTable /\ StampTable[Head(u)].bracketSlash
  THEN TrimStart(Tail(u))
  ELSE t

\* the continuation branch of the line loops
AppendContinuation(cur, line) ==
  IF cur # << >>
  THEN LET added == IF Trim(line) # << >> THEN cur \o << "NL" >> \o Trim(line)
                    ELSE cur
       IN  Trim(CollapseBlankLines(added))
  ELSE line

\* ------------------------------------------------------------------------
\* isSystemMessage, urlPattern, extractLinksWithContext
\* ------------------------------------------------------------------------
SystemPhrases == {"joined using", "left", "changed the subject"}

\* String.prototype.includes, for any of the given tokens
Includes(t, toks) == \E k \in 1..Len(t) : t[k] \in toks

isSystemMessage(message) == Includes(message, SystemPhrases)

\* the text urlPattern matches inside a token, Undefined when it matches
\* nothing there.  Only the THEIRS pattern accepts a digit-only last label.
UrlMatchIn(tok) ==
  IF tok \in {"https://a.io/x", "tool.dev", "get-zenith.com"} THEN tok
  ELSE IF side = "THEIRS" /\ tok = "22.9.2024, 14:33 -" THEN "22.9.2024"
  ELSE IF side = "THEIRS" /\ tok = "v1.0" THEN "v1.0"
  ELSE Undefined

\* the positions, from k on, at which urlPattern matches in the message
MatchPositions(message, k) ==
  { j \in k..Len(message) : UrlMatchIn(message[j]) # Undefined }

\* linksInMessage.forEach(match => extractedLinks.push({...})), in the order
\* of the matches
RECURSIVE MatchRecordsAt(_, _, _)
MatchRecordsAt(message, messageDate, positions) ==
  IF positions = {} THEN << >>
  ELSE LET k            == CHOOSE j \in positions : \A j2 \in positions : j <= j2
           startContext == Max(1, k - CONTEXT_CHARS)
           endContext   == Min(Len(message), k + CONTEXT_CHARS)
       IN  << [url             |-> UrlMatchIn(message[k]),
               messageContext  |-> Trim(SubSeq(message, startContext, endContext)),
               fullMessageText |-> message,
               date            |-> messageDate] >>
           \o MatchRecordsAt(message, messageDate, positions \ {k})

\* Array.from(message.matchAll(urlPattern)) mapped to the records pushed
MatchRecords(message, messageDate, k) ==
  MatchRecordsAt(message, messageDate, MatchPositions(message, k))

extractLinksWithContext(fullCleanedMessage, messageDate) ==
  IF fullCleanedMessage = << >> \/ isSystemMessage(fullCleanedMessage)
  THEN << >>
  ELSE (IF Includes(fullCleanedMessage, {"get-zenith.com"})
        THEN << [url             |-> "Get-zenith.com",
                 messageContext  |-> SubSeq(fullCleanedMessage, 1,
                                       Min(Len(fullCleanedMessage), ZENITH_SNIPPET)),
                 fullMessageText |-> fullCleanedMessage,
                 date            |-> messageDate] >>
        ELSE << >>)
       \o MatchRecords(fullCleanedMessage, messageDate, 1)

\* ------------------------------------------------------------------------
\* senderPattern and extractSender
\* ------------------------------------------------------------------------
\* the part of a token before its first colon, for the tokens that have one
ColonPrefix ==
  ( "Dana:" :> "Dana" ) @@ ( "Avi:" :> "Avi" ) @@
  ( "https://a.io/x" :> "https" ) @@
  ( "[24/03/2024, 23:00:00]" :> "[24/03/2024, 23" ) @@
  ( "[25/03/2024, 14:30:45]" :> "[25/03/2024, 14" ) @@
  ( "[26/03/24, 01:00]" :> "[26/03/24, 01" ) @@
  ( "[31/02/2024, 10:00:00]" :> "[31/02/2024, 10" ) @@
  ( "22.9.2024, 14:33 -" :> "22.9.2024, 14" )

EndsWithBracket(tok) ==
  tok \in DOMAIN StampTable /\ StampTable[tok].bracketSlash

\* first position >= k of a token satisfying the test, 0 if none
RECURSIVE FirstBracket(_, _)
FirstBracket(t, k) ==
  IF k > Len(t) THEN 0
  ELSE IF EndsWithBracket(t[k]) THEN k ELSE FirstBracket(t, k + 1)

RECURSIVE FirstColon(_, _)
FirstColon(t, k) ==
  IF k > Len(t) THEN 0
  ELSE IF t[k] \in DOMAIN ColonPrefix THEN k ELSE FirstColon(t, k + 1)

\* what /^~+\s*/ removes: leading tildes and the blanks after them
RECURSIVE StripTildes(_)
StripTildes(t) ==
  IF t # << >> /\ Head(t) = "~" THEN StripTildes(Tail(t)) ELSE TrimStart(t)

\* sender.split('requested to join')[0]
RECURSIVE BeforeRequestedToJoin(_)
BeforeRequestedToJoin(t) ==
  IF t = << >> \/ Head(t) = "requested to join" THEN << >>
  ELSE << Head(t) >> \o BeforeRequestedToJoin(Tail(t))

\* one optional mark at the head of the capture and the blanks after it
DropOptional(t, mark) ==
  IF Len(t) > 1 /\ Head(t) = mark THEN TrimStart(Tail(t)) ELSE t

\* the capture, given the places b of the closing bracket and c of the colon
CaptureBetween(messageLine, b, c) ==
  IF b = 0 \/ c = 0 THEN Null
  ELSE DropOptional(
         DropOptional(TrimStart(SubSeq(messageLine, b + 1, c - 1)
                                \o << ColonPrefix[messageLine[c]] >>), "-"),
         "~")

CaptureFrom(messageLine, b) ==
  CaptureBetween(messageLine, b, IF b = 0 THEN 0 ELSE FirstColon(messageLine, b + 1))

\* match[1] of messageLine.match(senderPattern): the pattern needs a closing
\* bracket, then takes blanks, one optional "-", one optional "~", and
\* captures everything up to the next colon; Null when there is no match
senderCapture(messageLine) == CaptureFrom(messageLine, FirstBracket(messageLine, 1))

\* if (sender.includes('requested to join')) sender = sender.split(...)[0].trim()
SplitAtRequestedToJoin(sender) ==
  IF Includes(sender, {"requested to join"})
  THEN Trim(BeforeRequestedToJoin(sender))
  ELSE sender

\* the clean-up of the captured name
CleanSender(captured) ==
  IF captured = Null THEN Null
  ELSE Trim(StripTildes(SplitAtRequestedToJoin(Trim(captured))))

\* the sender, as the words of the captured name; Null when undefined
extractSender(messageLine) == CleanSender(senderCapture(messageLine))

\* ------------------------------------------------------------------------
\* Zip entry names and extractGroupName
\* ------------------------------------------------------------------------
\* what the name tests of POST and the patterns of extractGroupName give for
\* the entry names of the model: endsWith('_chat.txt'), includes('.txt')
\* (which endsWith('.txt') implies), and whether the lower-cased name includes
\* 'whatsapp', 'chat' or the Hebrew word for chat
EntryNames ==
  ( "WhatsApp Chat with Solo_chat.txt" :>
      [endsWithChatTxt |-> TRUE,  hasTxt |-> TRUE,  hintsChat |-> TRUE,
       group |-> "Solo"] ) @@
  ( "_chat.txt" :>
      [endsWithChatTxt |-> TRUE,  hasTxt |-> TRUE,  hintsChat |-> TRUE,
       group |-> Undefined] ) @@
  ( "WhatsApp Chat - Devs.txt" :>
      [endsWithChatTxt |-> FALSE, hasTxt |-> TRUE,  hintsChat |-> TRUE,
       group |-> "Devs"] ) @@
  ( "notes.txt" :>
      [endsWithChatTxt |-> FALSE, hasTxt |-> TRUE,  hintsChat |-> FALSE,
       group |-> "notes"] ) @@
  ( "photo.jpg" :>
      [endsWithChatTxt |-> FALSE, hasTxt |-> FALSE, hintsChat |-> FALSE,
       group |-> Undefined] )

extractGroupName(fileName) == EntryNames[fileName].group

\* ------------------------------------------------------------------------
\* The records pushed to allLinksWithContext
\* ------------------------------------------------------------------------
\* HEAD: link.groupName = groupName on the records of extractLinksWithContext
\* THEIRS: a new record with the raw message text, the entry's group and the sender
RECURSIVE PushRecords(_, _, _, _)
PushRecords(extractedLinks, rawText, groupName, sender) ==
  IF extractedLinks = << >> THEN << >>
  ELSE LET link == Head(extractedLinks) IN
       << IF side = "HEAD"
          THEN [url |-> link.url, messageContext |-> link.messageContext,
                fullMessageText |-> link.fullMessageText, date |-> link.date,
                groupName |-> groupName, fileName |-> Undefined, sender |-> Null]
          ELSE [url |-> link.url, messageContext |-> rawText,
                fullMessageText |-> Null, date |-> link.date,
                groupName |-> Undefined, fileName |-> groupName, sender |-> sender] >>
       \o PushRecords(Tail(extractedLinks), rawText, groupName, sender)

\* ------------------------------------------------------------------------
\* Deduplication by URL
\* ------------------------------------------------------------------------
RECURSIVE DedupFrom(_, _)
DedupFrom(links, seenUrls) ==
  IF links = << >> THEN << >>
  ELSE IF Head(links).url \in seenUrls
       THEN DedupFrom(Tail(links), seenUrls)
       ELSE << Head(links) >> \o DedupFrom(Tail(links), seenUrls \cup {Head(links).url})

\* a deduplication that keeps the last record of every URL
RECURSIVE DedupKeepLast(_)
DedupKeepLast(links) ==
  IF links = << >> THEN << >>
  ELSE IF \E k \in 2..Len(links) : links[k].url = Head(links).url
       THEN DedupKeepLast(Tail(links))
       ELSE << Head(links) >> \o DedupKeepLast(Tail(links))

\* a deduplication that removes in place while iterating by index: the
\* record after a removed one is never examined
RECURSIVE DedupSpliceFrom(_, _)
DedupSpliceFrom(links, seenUrls) ==
  IF links = << >> THEN << >>
  ELSE IF Head(links).url \in seenUrls
       THEN IF Len(links) >= 2
            THEN << links[2] >> \o DedupSpliceFrom(SubSeq(links, 3, Len(links)), seenUrls)
            ELSE << >>
       ELSE << Head(links) >> \o DedupSpliceFrom(Tail(links), seenUrls \cup {Head(links).url})

DedupSplice(links) == DedupSpliceFrom(links, {})

Dedup(links) == DedupFrom(links, {})

\* ------------------------------------------------------------------------
\* The per-message steps of the line loops
\* ------------------------------------------------------------------------
NoLinks == [links |-> << >>, inRange |-> 0, withLinks |-> 0]

\* a finalization that also counts a message whose timestamp did not parse
FinalizeStandardCountsUnparsed(cur, curDate, groupName) ==
  IF cur # << >> /\ curDate = Null
  THEN [links |-> << >>, inRange |-> 1, withLinks |-> 0]
  ELSE IF cur # << >> /\ DayInRange(curDate[1])
  THEN LET extractedLinks ==
             extractLinksWithContext(CleanTimestamp(cur), curDate[1])
       IN  [links |->
              IF extractedLinks = << >> THEN << >>
              ELSE IF side = "HEAD" \/ InstantInRange(curDate[1])
                   THEN PushRecords(extractedLinks, cur, groupName,
                                    extractSender(cur))
                   ELSE << >>,
            inRange |-> 1,
            withLinks |-> IF extractedLinks = << >> THEN 0 ELSE 1]
  ELSE NoLinks

\* standard loop: "Process previous message" and "Process the last line"
FinalizeStandard(cur, curDate, groupName) ==
  IF cur # << >> /\ curDate # Null
  THEN IF DayInRange(curDate[1])
       THEN LET extractedLinks ==
                  extractLinksWithContext(CleanTimestamp(cur), curDate[1])
            IN  [links |->
                   IF extractedLinks = << >> THEN << >>
                   ELSE IF side = "HEAD" \/ InstantInRange(curDate[1])
                        THEN PushRecords(extractedLinks, cur, groupName,
                                         extractSender(cur))
                        ELSE << >>,
                 inRange |-> 1,
                 withLinks |-> IF extractedLinks = << >> THEN 0 ELSE 1]
       ELSE NoLinks
  ELSE NoLinks

\* standard loop: "Also check the current line for links"
DateLineStandard(line, newDate, groupName) ==
  IF newDate = Null THEN << >>
  ELSE IF side = "HEAD"
       THEN IF InstantInRange(newDate[1])
            THEN PushRecords(extractLinksWithContext(CleanTimestamp(line), newDate[1]),
                             line, groupName, Null)
            ELSE << >>
       ELSE IF DayInRange(newDate[1])
            THEN PushRecords(extractLinksWithContext(line, newDate[1]),
                             line, groupName, extractSender(line))
            ELSE << >>

\* alternative loop: "Process previous line"; the text scanned is the line
\* that opens the next message, the date that of the message in progress
FinalizeAlternativePrev(cur, curDate, line, groupName) ==
  IF cur # << >> /\ curDate # Null /\ InstantInRange(curDate[1])
  THEN LET extractedLinks ==
             extractLinksWithContext(CleanTimestamp(line), curDate[1])
       IN  [links |-> PushRecords(extractedLinks, cur, groupName, extractSender(cur)),
            inRange |-> 1,
            withLinks |-> IF extractedLinks = << >> THEN 0 ELSE 1]
  ELSE NoLinks

\* alternative loop: "Process the last line"
FinalizeAlternativeLast(cur, curDate, groupName) ==
  IF cur # << >> /\ curDate # Null /\ InstantInRange(curDate[1])
  THEN LET extractedLinks ==
             extractLinksWithContext(CleanTimestamp(cur), curDate[1])
       IN  [links |-> PushRecords(extractedLinks, cur, groupName, extractSender(cur)),
            inRange |-> 1,
            withLinks |-> IF extractedLinks = << >> THEN 0 ELSE 1]
  ELSE NoLinks

\* ------------------------------------------------------------------------
\* Responses
\* ------------------------------------------------------------------------
\* createResponse(data, status); keys are the properties present in the body,
\* summary is the digest as a sequence of lines (Null when there is none)
Response(status, keys, message, error, summary) ==
  Some([status |-> status, keys |-> keys, message |-> message,
        error |-> error, summary |-> summary])

\* ------------------------------------------------------------------------
\* Inputs of the model
\* ------------------------------------------------------------------------
LineShapes ==
  { << "[25/03/2024, 14:30:45]", "Dana:", "w", "https://a.io/x" >>,
    << "[26/03/24, 01:00]", "Avi:", "https://a.io/x" >>,
    << "[24/03/2024, 23:00:00]", "Dana:", "tool.dev" >>,
    << "[31/02/2024, 10:00:00]", "Avi:", "tool.dev" >>,
    << "_", "tool.dev", "_" >>,
    << "w", "[24/03/2024, 23:00:00]", "tool.dev" >>,
    << "joined using" >>,
    << >> }

RECURSIVE SeqsUpTo(_, _)
SeqsUpTo(S, n) ==
  IF n = 0 THEN { << >> }
  ELSE LET shorter == SeqsUpTo(S, n - 1)
       IN  shorter \cup { Append(t, x) : t \in { u \in shorter : Len(u) = n - 1 }, x \in S }

Transcripts == SeqsUpTo(LineShapes, MaxLines) \ { << >> }

Entry(name, readable, content) ==
  [name |-> name, readable |-> readable, content |-> content]

Archive(name, readable, valid, entries) ==
  [name |-> name, readable |-> readable, valid |-> valid, entries |-> entries]

\* archives for the requests that upload several files: two exports with a
\* link each, and archives that cannot be read, are no zip, hold no
\* transcript, or hold a transcript entry that cannot be extracted
ArchiveShapes ==
  { Archive("WhatsApp Chat - Solo.zip", TRUE, TRUE,
            << Entry("WhatsApp Chat with Solo_chat.txt", TRUE,
                     << << "[25/03/2024, 14:30:45]", "Dana:", "w", "https://a.io/x" >> >>) >>),
    Archive("WhatsApp Chat - Devs.zip", TRUE, TRUE,
            << Entry("WhatsApp Chat - Devs.txt", TRUE,
                     << << "[24/03/2024, 23:00:00]", "Dana:", "tool.dev" >> >>) >>),
    Archive("unreadable.zip", FALSE, TRUE, << >>),
    Archive("notazip.zip", TRUE, FALSE, << >>),
    Archive("photos.zip", TRUE, TRUE,
            << Entry("photo.jpg", TRUE, << >>),
               Entry("notes.txt", TRUE, << << "w" >> >>) >>),
    Archive("empty.zip", TRUE, TRUE, << >>),
    Archive("WhatsApp Chat - Damaged.zip", TRUE, TRUE,
            << Entry("_chat.txt", FALSE, << >>) >>) }

FileInputs ==
  { << >> }
  \cup { << Archive("WhatsApp Chat - Solo.zip", TRUE, TRUE, << Entry(n, TRUE, t) >>) >> :
           n \in {"WhatsApp Chat with Solo_chat.txt", "WhatsApp Chat - Devs.txt"},
           t \in Transcripts }
  \cup (SeqsUpTo(ArchiveShapes, MaxArchives) \ { << >> })

DateInputs == { Null, Some(DateUTC(2024, 3, 25, 0, 0, 0)) }

TimeZones == { 0, 7200 }

Sides == { "HEAD", "THEIRS" }

Init ==
  /\ side \in Sides
  /\ tz \in TimeZones
  /\ \/ /\ formDataOk = TRUE
        /\ files \in FileInputs
        /\ startDateStr \in DateInputs
        /\ endDateStr \in DateInputs
     \/ \* the body is no multipart form: there are no fields to read
        /\ formDataOk = FALSE
        /\ files = << >>
        /\ startDateStr = Null
        /\ endDateStr = Null
  /\ pc = "start"
  /\ startDate = Null
  /\ endDate = Null
  /\ fileIdx = 0
  /\ entryIdx = 0
  /\ i = 0
  /\ currentDate = Null
  /\ currentLine = << >>
  /\ messagesInRange = 0
  /\ messagesWithLinks = 0
  /\ chatFilesFound = 0
  /\ totalChatFilesFound = 0
  /\ allLinksWithContext = << >>
  /\ uniqueLinksByURL = << >>
  /\ linksToProcess = << >>
  /\ processedLinks = << >>
  /\ calls = << >>
  /\ response = Null
  /\ match = Null
  /\ returned = Null
  /\ suspended = Null
  /\ PageMounted

\* what no step of the handler writes: the inputs of the request, and the
\* variables of the date parser run on its own
inputVars == << side, tz, formDataOk, files, startDateStr, endDateStr,
                match, returned, suspended, pageVars >>

loopVars == << i, currentDate, currentLine, messagesInRange, messagesWithLinks >>

aiVars == << uniqueLinksByURL, linksToProcess, processedLinks, calls >>

\* ------------------------------------------------------------------------
\* POST: request parsing
\* ------------------------------------------------------------------------
ParseRequest ==
  /\ pc = "start"
  /\ IF ~formDataOk
     THEN \* await request.formData() rejects: the catch of POST
          /\ response' = Response(500, {"message", "error", "details"},
                                  "error while processing the files",
                                  << "formData" >>, Null)
          /\ pc' = "done"
          /\ UNCHANGED << startDate, endDate, fileIdx >>
     ELSE /\ startDate' = StartBoundary(startDateStr)
          /\ endDate' = EndBoundary(endDateStr)
          /\ IF Len(files) = 0
             THEN /\ response' = Response(400, {"message"}, "no files", << >>, Null)
                  /\ pc' = "done"
                  /\ fileIdx' = fileIdx
             ELSE /\ response' = response
                  /\ pc' = "nextFile"
                  /\ fileIdx' = 1
  /\ UNCHANGED << inputVars, entryIdx, loopVars, chatFilesFound,
                  totalChatFilesFound, allLinksWithContext, aiVars >>

\* ------------------------------------------------------------------------
\* POST: one archive
\* ------------------------------------------------------------------------
\* an archive step that silently skips an archive that cannot be loaded
OpenArchiveSkipsCorrupt ==
  /\ pc = "nextFile"
  /\ IF fileIdx > Len(files)
     THEN /\ pc' = "dedup"
          /\ UNCHANGED << fileIdx, chatFilesFound, entryIdx >>
     ELSE LET file == files[fileIdx] IN
          IF ~file.readable \/ ~file.valid
          THEN /\ fileIdx' = fileIdx + 1
               /\ pc' = pc
               /\ UNCHANGED << chatFilesFound, entryIdx >>
          ELSE /\ chatFilesFound' = 0
               /\ entryIdx' = 1
               /\ pc' = "stdLoop"
               /\ fileIdx' = fileIdx
  /\ UNCHANGED << inputVars, startDate, endDate, loopVars, response,
                  totalChatFilesFound, allLinksWithContext, aiVars >>

OpenArchive ==
  /\ pc = "nextFile"
  /\ IF fileIdx > Len(files)
     THEN /\ pc' = "dedup"
          /\ UNCHANGED << response, chatFilesFound, entryIdx >>
     ELSE LET file == files[fileIdx] IN
          IF ~file.readable
          THEN /\ response' = Response(500, {"message", "error", "details"},
                                       "file processing error",
                                       << "Failed to read file", file.name >>, Null)
               /\ pc' = "done"
               /\ UNCHANGED << chatFilesFound, entryIdx >>
          ELSE IF ~file.valid
          THEN /\ response' = Response(500, {"message", "error", "details"},
                                       "file processing error",
                                       << "Failed to extract ZIP file", file.name >>, Null)
               /\ pc' = "done"
               /\ UNCHANGED << chatFilesFound, entryIdx >>
          ELSE /\ chatFilesFound' = 0
               /\ entryIdx' = 1
               /\ pc' = "stdLoop"
               /\ response' = response
  /\ UNCHANGED << inputVars, startDate, endDate, fileIdx, loopVars,
                  totalChatFilesFound, allLinksWithContext, aiVars >>

CurrentEntry == files[fileIdx].entries[entryIdx]

Lines == CurrentEntry.content

\* for (const fileName in zip.files) { if (fileName.endsWith('_chat.txt')) ...
StandardEntry ==
  /\ pc = "stdLoop"
  /\ IF entryIdx > Len(files[fileIdx].entries)
     THEN /\ IF chatFilesFound = 0
             THEN pc' = "altLoop" /\ entryIdx' = 1
             ELSE pc' = "fileDone" /\ entryIdx' = entryIdx
          /\ UNCHANGED << chatFilesFound, loopVars >>
     ELSE IF EntryNames[CurrentEntry.name].endsWithChatTxt
          THEN /\ chatFilesFound' = chatFilesFound + 1
               /\ IF CurrentEntry.readable
                  THEN /\ pc' = "stdLines"
                       /\ i' = 1
                       /\ currentDate' = Null
                       /\ currentLine' = << >>
                       /\ messagesInRange' = 0
                       /\ messagesWithLinks' = 0
                       /\ entryIdx' = entryIdx
                  ELSE /\ pc' = pc
                       /\ entryIdx' = entryIdx + 1
                       /\ UNCHANGED loopVars
          ELSE /\ pc' = pc
               /\ entryIdx' = entryIdx + 1
               /\ UNCHANGED << chatFilesFound, loopVars >>
  /\ UNCHANGED << inputVars, startDate, endDate, fileIdx, totalChatFilesFound,
                  allLinksWithContext, aiVars, response >>

\* one iteration of the standard line loop
StandardLine ==
  /\ pc = "stdLines"
  /\ i <= Len(Lines)
  /\ LET line      == Lines[i]
         groupName == extractGroupName(CurrentEntry.name)
     IN  IF datePatternMatch(line)
         THEN LET prev    == FinalizeStandard(currentLine, currentDate, groupName)
                  newDate == extractDateFromMessage(line)
              IN  /\ messagesInRange' = messagesInRange + prev.inRange
                  /\ messagesWithLinks' = messagesWithLinks + prev.withLinks
                  /\ currentDate' = newDate
                  /\ currentLine' = line
                  /\ allLinksWithContext' =
                       allLinksWithContext \o prev.links
                         \o DateLineStandard(line, newDate, groupName)
         ELSE /\ currentLine' = AppendContinuation(currentLine, line)
              /\ UNCHANGED << currentDate, messagesInRange, messagesWithLinks,
                              allLinksWithContext >>
  /\ i' = i + 1
  /\ UNCHANGED << inputVars, pc, startDate, endDate, fileIdx, entryIdx,
                  chatFilesFound, totalChatFilesFound, aiVars, response >>

\* after the standard line loop: the last message of the entry
StandardLast ==
  /\ pc = "stdLines"
  /\ i > Len(Lines)
  /\ LET last == FinalizeStandard(currentLine, currentDate,
                                  extractGroupName(CurrentEntry.name))
     IN  /\ messagesInRange' = messagesInRange + last.inRange
         /\ messagesWithLinks' = messagesWithLinks + last.withLinks
         /\ allLinksWithContext' = allLinksWithContext \o last.links
  /\ pc' = "stdLoop"
  /\ entryIdx' = entryIdx + 1
  /\ UNCHANGED << inputVars, startDate, endDate, fileIdx, i, currentDate,
                  currentLine, chatFilesFound, totalChatFilesFound, aiVars,
                  response >>

\* content.split('\n').slice(0, 10).some(line => line.match(datePattern))
hasWhatsAppFormat(content) ==
  \E k \in 1..Min(Len(content), 10) : datePatternMatch(content[k])

\* a name test that accepts a text entry only when its name hints at chat data
isAlternativeCandidateHinted(fileName) ==
  EntryNames[fileName].hasTxt /\ EntryNames[fileName].hintsChat

\* (fileName.endsWith('.txt') && (name includes whatsapp | chat | ...)) ||
\* fileName.includes('.txt')
isAlternativeCandidate(fileName) ==
  \/ (EntryNames[fileName].hasTxt /\ EntryNames[fileName].hintsChat)
  \/ EntryNames[fileName].hasTxt

\* if (chatFilesFound === 0) for (const fileName in zip.files) ...
AlternativeEntry ==
  /\ pc = "altLoop"
  /\ IF entryIdx > Len(files[fileIdx].entries)
     THEN /\ pc' = "fileDone"
          /\ UNCHANGED << entryIdx, chatFilesFound, loopVars >>
     ELSE IF /\ isAlternativeCandidate(CurrentEntry.name)
             /\ CurrentEntry.readable
             /\ hasWhatsAppFormat(CurrentEntry.content)
          THEN /\ chatFilesFound' = chatFilesFound + 1
               /\ pc' = "altLines"
               /\ i' = 1
               /\ currentDate' = Null
               /\ currentLine' = << >>
               /\ messagesInRange' = 0
               /\ messagesWithLinks' = 0
               /\ entryIdx' = entryIdx
          ELSE /\ pc' = pc
               /\ entryIdx' = entryIdx + 1
               /\ UNCHANGED << chatFilesFound, loopVars >>
  /\ UNCHANGED << inputVars, startDate, endDate, fileIdx, totalChatFilesFound,
                  allLinksWithContext, aiVars, response >>

\* one iteration of the alternative line loop
AlternativeLine ==
  /\ pc = "altLines"
  /\ i <= Len(Lines)
  /\ LET line      == Lines[i]
         groupName == extractGroupName(CurrentEntry.name)
     IN  IF datePatternMatch(line)
         THEN LET prev == FinalizeAlternativePrev(currentLine, currentDate,
                                                  line, groupName)
              IN  /\ messagesInRange' = messagesInRange + prev.inRange
                  /\ messagesWithLinks' = messagesWithLinks + prev.withLinks
                  /\ currentDate' = extractDateFromMessage(line)
                  /\ currentLine' = line
                  /\ allLinksWithContext' = allLinksWithContext \o prev.links
         ELSE /\ currentLine' = AppendContinuation(currentLine, line)
              /\ UNCHANGED << currentDate, messagesInRange, messagesWithLinks,
                              allLinksWithContext >>
  /\ i' = i + 1
  /\ UNCHANGED << inputVars, pc, startDate, endDate, fileIdx, entryIdx,
                  chatFilesFound, totalChatFilesFound, aiVars, response >>

\* after the alternative line loop: the last message of the entry
AlternativeLast ==
  /\ pc = "altLines"
  /\ i > Len(Lines)
  /\ LET last == FinalizeAlternativeLast(currentLine, currentDate,
                                         extractGroupName(CurrentEntry.name))
     IN  /\ messagesInRange' = messagesInRange + last.inRange
         /\ messagesWithLinks' = messagesWithLinks + last.withLinks
         /\ allLinksWithContext' = allLinksWithContext \o last.links
  /\ pc' = "altLoop"
  /\ entryIdx' = entryIdx + 1
  /\ UNCHANGED << inputVars, startDate, endDate, fileIdx, i, currentDate,
                  currentLine, chatFilesFound, totalChatFilesFound, aiVars,
                  response >>

\* an end of the archive that fails the request when no transcript was found
ArchiveDoneThrows ==
  /\ pc = "fileDone"
  /\ IF chatFilesFound = 0
     THEN /\ response' = Response(500, {"message", "error", "details"},
                                  "file processing error",
                                  << "No chat files found", files[fileIdx].name >>,
                                  Null)
          /\ pc' = "done"
          /\ UNCHANGED << fileIdx, totalChatFilesFound >>
     ELSE /\ totalChatFilesFound' = totalChatFilesFound + chatFilesFound
          /\ fileIdx' = fileIdx + 1
          /\ pc' = "nextFile"
          /\ response' = response
  /\ UNCHANGED << inputVars, startDate, endDate, entryIdx, loopVars,
                  chatFilesFound, allLinksWithContext, aiVars >>

\* the end of the archive: if (chatFilesFound === 0) {log} else {total += ...}
ArchiveDone ==
  /\ pc = "fileDone"
  /\ totalChatFilesFound' =
       IF chatFilesFound = 0 THEN totalChatFilesFound
       ELSE totalChatFilesFound + chatFilesFound
  /\ fileIdx' = fileIdx + 1
  /\ pc' = "nextFile"
  /\ UNCHANGED << inputVars, startDate, endDate, entryIdx, loopVars,
                  chatFilesFound, allLinksWithContext, aiVars, response >>

\* ------------------------------------------------------------------------
\* POST: deduplication, zero-result branch, MAX_LINKS
\* ------------------------------------------------------------------------
\* a zero-result branch that reports the date range only when both bounds are set
DeduplicateBothBounds ==
  /\ pc = "dedup"
  /\ uniqueLinksByURL' = Dedup(allLinksWithContext)
  /\ IF Len(uniqueLinksByURL') = 0
     THEN /\ response' = Response(404, {"message", "details"},
                                  IF startDate # Null /\ endDate # Null
                                  THEN "no links in date range"
                                  ELSE "no links in files",
                                  << >>, Null)
          /\ pc' = "done"
          /\ linksToProcess' = linksToProcess
     ELSE /\ linksToProcess' =
               IF Len(uniqueLinksByURL') > MAX_LINKS
               THEN SubSeq(uniqueLinksByURL', 1, MAX_LINKS)
               ELSE uniqueLinksByURL'
          /\ pc' = "testConn"
          /\ response' = response
  /\ UNCHANGED << inputVars, startDate, endDate, fileIdx, entryIdx, loopVars,
                  chatFilesFound, totalChatFilesFound, allLinksWithContext,
                  processedLinks, calls >>

Deduplicate ==
  /\ pc = "dedup"
  /\ uniqueLinksByURL' = Dedup(allLinksWithContext)
  /\ IF Len(uniqueLinksByURL') = 0
     THEN /\ response' = Response(404, {"message", "details"},
                                  IF startDate # Null \/ endDate # Null
                                  THEN "no links in date range"
                                  ELSE "no links in files",
                                  << >>, Null)
          /\ pc' = "done"
          /\ linksToProcess' = linksToProcess
     ELSE /\ linksToProcess' =
               IF Len(uniqueLinksByURL') > MAX_LINKS
               THEN SubSeq(uniqueLinksByURL', 1, MAX_LINKS)
               ELSE uniqueLinksByURL'
          /\ pc' = "testConn"
          /\ response' = response
  /\ UNCHANGED << inputVars, startDate, endDate, fileIdx, entryIdx, loopVars,
                  chatFilesFound, totalChatFilesFound, allLinksWithContext,
                  processedLinks, calls >>

\* ------------------------------------------------------------------------
\* The collaborator
\* ------------------------------------------------------------------------
\* what a chat.completions.create call can come back with
PrimaryOutcomes == {"json", "empty", "not json", "timeout", "ETIMEDOUT", "rate limit"}

FallbackOutcomes == {"text", "empty", "timeout", "rate limit"}

IsTimeout(outcome) == outcome \in {"timeout", "ETIMEDOUT"}

Call(kind, outcome) == [kind |-> kind, outcome |-> outcome]

\* a call that came back with a reply that parses as JSON
CallWithReply(kind, outcome, reply) ==
  [kind |-> kind, outcome |-> outcome, reply |-> reply]

\* const connectionTest = await testOpenAIConnection()
TestConnection ==
  /\ pc = "testConn"
  /\ \E outcome \in {"ok", "error"} :
       /\ calls' = Append(calls, Call("test", outcome))
       /\ IF outcome = "ok"
          THEN pc' = "primary" /\ response' = response
          ELSE /\ response' = Response(500, {"message", "error", "details"},
                                       "OpenAI connection error", << outcome >>, Null)
               /\ pc' = "done"
  /\ UNCHANGED << inputVars, startDate, endDate, fileIdx, entryIdx, loopVars,
                  chatFilesFound, totalChatFilesFound, allLinksWithContext,
                  uniqueLinksByURL, linksToProcess, processedLinks >>

\* URLs of the lists that exercise the limits: short ones, and names that
\* stand for URLs with a query string of about a thousand characters
ShortUrls ==
  << "https://s.io/01", "https://s.io/02", "https://s.io/03",
     "https://s.io/04", "https://s.io/05", "https://s.io/06",
     "https://s.io/07", "https://s.io/08", "https://s.io/09",
     "https://s.io/10", "https://s.io/11", "https://s.io/12",
     "https://s.io/13", "https://s.io/14", "https://s.io/15",
     "https://s.io/16", "https://s.io/17", "https://s.io/18",
     "https://s.io/19", "https://s.io/20", "https://s.io/21",
     "https://s.io/22", "https://s.io/23", "https://s.io/24",
     "https://s.io/25", "https://s.io/26", "https://s.io/27",
     "https://s.io/28", "https://s.io/29", "https://s.io/30",
     "https://s.io/31", "https://s.io/32", "https://s.io/33",
     "https://s.io/34", "https://s.io/35", "https://s.io/36" >>

LongUrls ==
  << "https://l.io/01", "https://l.io/02", "https://l.io/03",
     "https://l.io/04", "https://l.io/05", "https://l.io/06",
     "https://l.io/07", "https://l.io/08", "https://l.io/09",
     "https://l.io/10", "https://l.io/11", "https://l.io/12",
     "https://l.io/13", "https://l.io/14", "https://l.io/15",
     "https://l.io/16", "https://l.io/17", "https://l.io/18",
     "https://l.io/19", "https://l.io/20", "https://l.io/21",
     "https://l.io/22", "https://l.io/23", "https://l.io/24",
     "https://l.io/25", "https://l.io/26", "https://l.io/27",
     "https://l.io/28", "https://l.io/29", "https://l.io/30",
     "https://l.io/31", "https://l.io/32", "https://l.io/33",
     "https://l.io/34", "https://l.io/35", "https://l.io/36" >>

Range(s) == { s[k] : k \in DOMAIN s }

\* url.length, in characters
UrlLength(url) ==
  IF url \in Range(LongUrls) THEN 1000
  ELSE IF url \in Range(ShortUrls) THEN 15
  ELSE IF url = "https://a.io/x" THEN 14
  ELSE IF url = "tool.dev" THEN 8
  ELSE IF url \in {"get-zenith.com", "Get-zenith.com"} THEN 14
  ELSE IF url = "22.9.2024" THEN 9
  ELSE 4

\* an estimate that counts the whole context
getMessageSizeWholeContext(link) ==
  UrlLength(link.url) + Len(link.messageContext) + 50

\* url.length + Math.min(messageContext.length, 300) + 50
getMessageSize(link) ==
  UrlLength(link.url) + Min(Len(link.messageContext), 300) + 50

RECURSIVE SizeOf(_)
SizeOf(links) ==
  IF links = << >> THEN 0 ELSE getMessageSize(Head(links)) + SizeOf(Tail(links))

\* links.reduce((acc, link) => ... newSize <= MAX_CHARS ...)
RECURSIVE BudgetFrom(_, _)
BudgetFrom(acc, links) ==
  IF links = << >> THEN acc
  ELSE IF SizeOf(acc) + getMessageSize(Head(links)) <= MAX_CHARS
       THEN BudgetFrom(Append(acc, Head(links)), Tail(links))
       ELSE BudgetFrom(acc, Tail(links))

\* ------------------------------------------------------------------------
\* The digest: renderSummaryFromJson and the texts generateSummary returns
\* ------------------------------------------------------------------------
\* one line of a digest: what the line is and the words put on it
Line(label, text) == [label |-> label, text |-> text]

\* value || placeholder
OrElse(value, placeholder) ==
  IF value = Undefined \/ value = "" THEN placeholder ELSE value

\* an entry of a category of the reply; a field the reply omits is Undefined
JsonEntry(name, type, description, userValue, complexity, keyPoints, url) ==
  [kind |-> "object", name |-> name, type |-> type, description |-> description,
   userValue |-> userValue, complexity |-> complexity, keyPoints |-> keyPoints,
   url |-> url]

NoKeyPoints == [kind |-> "undefined", items |-> << >>]

\* what iterating a category value yields when the value is not an array of
\* objects: a null element, or a character of a string
JsonNull == [JsonEntry(Undefined, Undefined, Undefined, Undefined, Undefined,
                       NoKeyPoints, Undefined) EXCEPT !.kind = "null"]

JsonChar == [JsonEntry(Undefined, Undefined, Undefined, Undefined, Undefined,
                       NoKeyPoints, Undefined) EXCEPT !.kind = "string"]

JsonCategory(category, kind, items) ==
  [category |-> category, links |-> [kind |-> kind, items |-> items]]

\* isSameDay(date1, date2): local calendar days
isSameDay(date1, date2) == LocalDay(date1) = LocalDay(date2)

\* generateSummary: the date line of the digest
dateRangeInfo ==
  IF startDate # Null /\ endDate # Null
  THEN (IF isSameDay(startDate[1], endDate[1]) THEN "from the date"
        ELSE "between the dates")
  ELSE IF startDate # Null THEN "starting from the date"
  ELSE IF endDate # Null THEN "until the date"
  ELSE ""

summaryDateInfo ==
  IF startDate # Null /\ endDate # Null /\ isSameDay(startDate[1], endDate[1])
  THEN "day of the start date"
  ELSE "today"

\* originalLinkMap.get(url): the first of the original links with this url
originalLinkMap(originalLinks, url) ==
  LET hits == { j \in 1..Len(originalLinks) : originalLinks[j].url = url }
  IN  IF hits = {} THEN Null
      ELSE Some(originalLinks[CHOOSE j \in hits : \A j2 \in hits : j <= j2])

\* the body of the inner loop of renderSummaryFromJson; threw stands for the
\* TypeError of reading a property of null or calling forEach on a string
renderEntry(summarizedLink, originalLinks) ==
  IF summarizedLink.kind = "null" THEN [threw |-> TRUE, output |-> << >>]
  ELSE
    LET originalLink     == originalLinkMap(originalLinks, summarizedLink.url)
        groupName        == IF originalLink = Null THEN Undefined
                            ELSE originalLink[1].groupName
        contextToDisplay == IF originalLink = Null THEN Null
                            ELSE originalLink[1].fullMessageText
        keyPoints        == summarizedLink.keyPoints
    IN
    IF keyPoints.kind = "string" /\ keyPoints.items # << >>
    THEN [threw |-> TRUE, output |-> << >>]
    ELSE [threw |-> FALSE,
          output |->
            << Line("name", << OrElse(summarizedLink.name, "unknown name"),
                               OrElse(summarizedLink.type, "unknown type") >>),
               Line("description",
                    << OrElse(summarizedLink.description, "no description") >>) >>
            \o (IF contextToDisplay # << >>
                THEN << Line("message context", contextToDisplay) >> ELSE << >>)
            \o (IF groupName # Undefined
                THEN << Line("group", << groupName >>) >> ELSE << >>)
            \o (IF keyPoints.kind = "array" /\ keyPoints.items # << >>
                THEN << Line("key points", keyPoints.items) >> ELSE << >>)
            \o << Line("user value",
                       << OrElse(summarizedLink.userValue, "value not stated") >>) >>
            \o (IF summarizedLink.complexity # Undefined
                THEN << Line("complexity", << summarizedLink.complexity >>) >>
                ELSE << >>)
            \o << Line("link", << summarizedLink.url >>) >>]

\* for (const summarizedLink of linksInCategory)
RECURSIVE renderEntries(_, _)
renderEntries(items, originalLinks) ==
  IF items = << >> THEN [threw |-> FALSE, output |-> << >>]
  ELSE LET first == renderEntry(Head(items), originalLinks) IN
       IF first.threw THEN first
       ELSE LET rest == renderEntries(Tail(items), originalLinks)
            IN  [threw |-> rest.threw, output |-> first.output \o rest.output]

\* for (const category in summaryJson); a category value that is neither an
\* array nor a string is not iterable
RECURSIVE renderCategories(_, _)
renderCategories(summaryJson, originalLinks) ==
  IF summaryJson = << >> THEN [threw |-> FALSE, output |-> << >>]
  ELSE LET c == Head(summaryJson) IN
       IF c.links.kind \notin {"array", "string"}
       THEN [threw |-> TRUE, output |-> << >>]
       ELSE LET first == renderEntries(c.links.items, originalLinks) IN
            IF first.threw THEN first
            ELSE LET rest == renderCategories(Tail(summaryJson), originalLinks)
                 IN  [threw |-> rest.threw,
                      output |-> << Line("category", << c.category >>) >>
                                 \o first.output \o rest.output]

renderSummaryFromJson(summaryJson, originalLinks, rangeInfo, dateInfo) ==
  LET body == renderCategories(summaryJson, originalLinks)
  IN  [threw |-> body.threw,
       output |-> << Line("greeting", << >>), Line("title", << >>),
                     Line("date", << OrElse(rangeInfo, dateInfo) >>) >>
                  \o body.output]

\* the listing generateSummary returns when the fallback call fails too
RECURSIVE RawLinkLines(_)
RawLinkLines(links) ==
  IF links = << >> THEN << >>
  ELSE << Line("link", << Head(links).url >>),
          Line("description", << "link from the WhatsApp group" >>),
          Line("group", << OrElse(Head(links).fileName, "unknown") >>),
          Line("sender", IF Head(links).sender = << >> THEN << "unknown" >>
                         ELSE Head(links).sender) >>
       \o RawLinkLines(Tail(links))

RawListing(links) ==
  << Line("greeting", << >>), Line("title", << >>),
     Line("date", << OrElse(dateRangeInfo, summaryDateInfo) >>),
     Line("category", << "other" >>) >>
  \o RawLinkLines(SubSeq(links, 1, Min(Len(links), 10)))

\* the replies of the collaborator that parse as JSON
JsonReplies ==
  { \* a complete entry
    << JsonCategory("AI tools", "array",
         << JsonEntry("A", "SaaS", "does x", "for founders", "5 min",
                      [kind |-> "array", items |-> << "fast" >>],
                      "https://a.io/x") >>) >>,
    \* an entry with nothing but the url, then an entry for an unknown url
    << JsonCategory("Articles", "array",
         << JsonEntry(Undefined, Undefined, Undefined, Undefined, Undefined,
                      NoKeyPoints, "tool.dev"),
            JsonEntry("B", "", Undefined, "", Undefined, NoKeyPoints,
                      "https://other.example") >>) >>,
    \* no category at all
    << >>,
    \* a category whose value is an object instead of an array
    << JsonCategory("AI tools", "object", << >>) >>,
    \* a category whose value is a string: its characters are iterated
    << JsonCategory("AI tools", "string", << JsonChar >>) >>,
    \* an array with a null element
    << JsonCategory("AI tools", "array", << JsonNull >>) >>,
    \* key points given as a string instead of an array
    << JsonCategory("AI tools", "array",
         << JsonEntry("A", "SaaS", "does x", "for founders", Undefined,
                      [kind |-> "string", items |-> << "fast" >>],
                      "https://a.io/x") >>) >> }

\* a pass that keeps every link whatever its size
reduceLinksNoLimit(links) == links

\* const processedLinks = links.reduce(..., [])
reduceLinks(links) == BudgetFrom(<< >>, links)

\* a summarization that issues the original request again after a timeout
PrimaryCallRetries ==
  /\ pc = "primary"
  /\ processedLinks' = reduceLinks(linksToProcess)
  /\ \E outcome \in PrimaryOutcomes :
       IF outcome = "json"
       THEN \* JSON.parse and renderSummaryFromJson
            \E summaryJson \in JsonReplies :
              LET rendered == renderSummaryFromJson(summaryJson, linksToProcess,
                                                    dateRangeInfo, summaryDateInfo)
              IN  /\ calls' = Append(calls, CallWithReply("primary", outcome, summaryJson))
                  /\ pc' = "done"
                  /\ response' =
                       IF rendered.threw
                       THEN \* TypeError: catch, re-throw, caught by POST
                            Response(500, {"message", "error"},
                                     "link analysis error",
                                     << "OpenAI API error", "TypeError" >>, Null)
                       ELSE Response(200, {"summary"}, Undefined, << >>,
                                     rendered.output)
       ELSE /\ calls' = Append(calls, Call("primary", outcome))
            /\ IF IsTimeout(outcome)
               THEN /\ pc' = IF Len(calls) < 3 THEN "primary" ELSE "fallback"
                    /\ response' = response
               ELSE \* catch: re-throw, caught by POST
                    /\ response' = Response(500, {"message", "error"},
                                            "link analysis error",
                                            << "OpenAI API error", outcome >>, Null)
                    /\ pc' = "done"
  /\ UNCHANGED << inputVars, startDate, endDate, fileIdx, entryIdx, loopVars,
                  chatFilesFound, totalChatFilesFound, allLinksWithContext,
                  uniqueLinksByURL, linksToProcess >>

\* generateSummary up to the outcome of the first chat.completions.create
PrimaryCall ==
  /\ pc = "primary"
  /\ processedLinks' = reduceLinks(linksToProcess)
  /\ \E outcome \in PrimaryOutcomes :
       IF outcome = "json"
       THEN \* JSON.parse and renderSummaryFromJson
            \E summaryJson \in JsonReplies :
              LET rendered == renderSummaryFromJson(summaryJson, linksToProcess,
                                                    dateRangeInfo, summaryDateInfo)
              IN  /\ calls' = Append(calls, CallWithReply("primary", outcome, summaryJson))
                  /\ pc' = "done"
                  /\ response' =
                       IF rendered.threw
                       THEN \* TypeError: catch, re-throw, caught by POST
                            Response(500, {"message", "error"},
                                     "link analysis error",
                                     << "OpenAI API error", "TypeError" >>, Null)
                       ELSE Response(200, {"summary"}, Undefined, << >>,
                                     rendered.output)
       ELSE /\ calls' = Append(calls, Call("primary", outcome))
            /\ IF IsTimeout(outcome)
               THEN \* catch: timeout, go on with the simplified prompt
                    /\ pc' = "fallback"
                    /\ response' = response
               ELSE \* catch: re-throw, caught by POST
                    /\ response' = Response(500, {"message", "error"},
                                            "link analysis error",
                                            << "OpenAI API error", outcome >>, Null)
                    /\ pc' = "done"
  /\ UNCHANGED << inputVars, startDate, endDate, fileIdx, entryIdx, loopVars,
                  chatFilesFound, totalChatFilesFound, allLinksWithContext,
                  uniqueLinksByURL, linksToProcess >>

\* a fallback that marks the raw listing as a failure of the request
FallbackCallErrorStatus ==
  /\ pc = "fallback"
  /\ \E outcome \in FallbackOutcomes :
       /\ calls' = Append(calls, Call("fallback", outcome))
       /\ response' =
            Response(IF outcome \in {"text", "empty"} THEN 200 ELSE 500,
                     {"summary"}, Undefined, << >>,
                     IF outcome = "text"
                     THEN << Line("text of the collaborator", << >>) >>
                     ELSE IF outcome = "empty"
                     THEN << Line("could not produce a summary", << >>) >>
                     ELSE RawListing(processedLinks))
  /\ pc' = "done"
  /\ UNCHANGED << inputVars, startDate, endDate, fileIdx, entryIdx, loopVars,
                  chatFilesFound, totalChatFilesFound, allLinksWithContext,
                  uniqueLinksByURL, linksToProcess, processedLinks >>
\* generateSummary: the simplified prompt after a timeout
FallbackCall ==
  /\ pc = "fallback"
  /\ \E outcome \in FallbackOutcomes :
       /\ calls' = Append(calls, Call("fallback", outcome))
       /\ response' =
            Response(200, {"summary"}, Undefined, << >>,
                     IF outcome = "text"
                     THEN << Line("text of the collaborator", << >>) >>
                     ELSE IF outcome = "empty"
                     THEN << Line("could not produce a summary", << >>) >>
                     ELSE RawListing(processedLinks))
  /\ pc' = "done"
  /\ UNCHANGED << inputVars, startDate, endDate, fileIdx, entryIdx, loopVars,
                  chatFilesFound, totalChatFilesFound, allLinksWithContext,
                  uniqueLinksByURL, linksToProcess, processedLinks >>

Next ==
  \/ ParseRequest
  \/ OpenArchive
  \/ StandardEntry
  \/ StandardLine
  \/ StandardLast
  \/ AlternativeEntry
  \/ AlternativeLine
  \/ AlternativeLast
  \/ ArchiveDone
  \/ Deduplicate
  \/ TestConnection
  \/ PrimaryCall
  \/ FallbackCall

Spec == Init /\ [][Next]_vars

\* ------------------------------------------------------------------------
\* The handler under fair scheduling: an async function goes on as soon as
\* the promise it awaits settles, and every read and every collaborator call
\* is taken to settle.
\* ------------------------------------------------------------------------
\* no upload, every archive alone, an export of three lines in either
\* format, and each pair of a good export and another archive
FairFiles ==
  { << >> }
  \cup { << a >> : a \in ArchiveShapes }
  \cup { << Archive("WhatsApp Chat - Solo.zip", TRUE, TRUE,
                    << Entry(n, TRUE,
                             << << "[24/03/2024, 23:00:00]", "Dana:", "tool.dev" >>,
                                << "_", "tool.dev", "_" >>,
                                << "[25/03/2024, 14:30:45]", "Dana:", "w",
                                   "https://a.io/x" >> >>) >>) >> :
            n \in {"WhatsApp Chat with Solo_chat.txt", "WhatsApp Chat - Devs.txt"} }
  \cup { << a, b >> : a \in { s \in ArchiveShapes :
                                s.name = "WhatsApp Chat - Devs.zip" },
                      b \in ArchiveShapes }

InitArchives ==
  /\ side \in Sides
  /\ tz = 0
  /\ \/ /\ formDataOk = TRUE
        /\ files \in FairFiles
        /\ startDateStr \in DateInputs
        /\ endDateStr = Null
     \/ /\ formDataOk = FALSE
        /\ files = << >>
        /\ startDateStr = Null
        /\ endDateStr = Null
  /\ pc = "start"
  /\ startDate = Null
  /\ endDate = Null
  /\ fileIdx = 0
  /\ entryIdx = 0
  /\ i = 0
  /\ currentDate = Null
  /\ currentLine = << >>
  /\ messagesInRange = 0
  /\ messagesWithLinks = 0
  /\ chatFilesFound = 0
  /\ totalChatFilesFound = 0
  /\ allLinksWithContext = << >>
  /\ uniqueLinksByURL = << >>
  /\ linksToProcess = << >>
  /\ processedLinks = << >>
  /\ calls = << >>
  /\ response = Null
  /\ match = Null
  /\ returned = Null
  /\ suspended = Null
  /\ PageMounted

FairSpec == InitArchives /\ [][Next]_vars /\ WF_vars(Next)

\* ------------------------------------------------------------------------
\* The date parser on its own: every combination of capture-group values
\* ------------------------------------------------------------------------
Days == {0, 1, 28, 29, 30, 31, 32}

Months == {0, 1, 2, 4, 12, 13}

Years == {0, 23, 24, 49, 50, 1900, 2019, 2020, 2023, 2024, 2026, 2027}

Hours == {0, 23, 24}

Minutes == {0, 59, 60}

Seconds == {-1, 0, 59, 60}

InitDate ==
  /\ side \in Sides
  /\ tz \in TimeZones
  /\ formDataOk = TRUE
  /\ files = << >>
  /\ startDateStr = Null
  /\ endDateStr = Null
  /\ pc = "parse"
  /\ startDate = Null
  /\ endDate = Null
  /\ fileIdx = 0
  /\ entryIdx = 0
  /\ i = 0
  /\ currentDate = Null
  /\ currentLine = << >>
  /\ messagesInRange = 0
  /\ messagesWithLinks = 0
  /\ chatFilesFound = 0
  /\ totalChatFilesFound = 0
  /\ allLinksWithContext = << >>
  /\ uniqueLinksByURL = << >>
  /\ linksToProcess = << >>
  /\ processedLinks = << >>
  /\ calls = << >>
  /\ response = Null
  /\ match \in { Some([day |-> d, month |-> m, year |-> y, hour |-> h,
                       minute |-> mi, second |-> s, bracketSlash |-> TRUE]) :
                    d \in Days, m \in Months, y \in Years, h \in Hours,
                    mi \in Minutes, s \in Seconds }
  /\ returned = Null
  /\ suspended = Null
  /\ PageMounted

\* extractDateFromMessage on a line whose timestamp has these capture groups
ParseDate ==
  /\ pc = "parse"
  /\ returned' = dateFromComponents(match[1])
  /\ pc' = "parsed"
  /\ UNCHANGED << side, tz, formDataOk, files, startDateStr, endDateStr, match,
                  suspended, startDate, endDate, fileIdx, entryIdx, loopVars,
                  chatFilesFound, totalChatFilesFound, allLinksWithContext,
                  aiVars, response, pageVars >>

NextDate == ParseDate

DateSpec == InitDate /\ [][NextDate]_vars

\* ------------------------------------------------------------------------
\* Deduplication and summarization on their own: long lists of collected
\* links, so that MAX_LINKS and MAX_CHARS come into play
\* ------------------------------------------------------------------------
ListShapes == {"short", "long", "long then short", "alternating", "repeated"}

\* a text of n characters
Chars(n) == [k \in 1..n |-> "w"]

\* the j-th record of a collected list of the given shape
CollectedLink(shape, j) ==
  LET isLong == \/ shape = "long"
                \/ shape = "long then short" /\ j <= 9
                \/ shape = "alternating" /\ j % 2 = 1
      number == IF shape = "repeated" THEN (j + 1) \div 2 ELSE j
      text   == Chars(IF isLong THEN 400 ELSE 10)
  IN  [url |-> IF isLong THEN LongUrls[number] ELSE ShortUrls[number],
       messageContext |-> text, fullMessageText |-> text, date |-> 0,
       groupName |-> "Solo", fileName |-> Undefined, sender |-> Null]

InitLimit ==
  /\ side \in Sides
  /\ tz = 0
  /\ formDataOk = TRUE
  /\ files = << Archive("WhatsApp Chat - Solo.zip", TRUE, TRUE, << >>) >>
  /\ startDateStr = Null
  /\ endDateStr = Null
  /\ pc = "dedup"
  /\ startDate = Null
  /\ endDate = Null
  /\ fileIdx = 2
  /\ entryIdx = 1
  /\ i = 0
  /\ currentDate = Null
  /\ currentLine = << >>
  /\ messagesInRange = 0
  /\ messagesWithLinks = 0
  /\ chatFilesFound = 1
  /\ totalChatFilesFound = 1
  /\ \E n \in 0..MaxCollected, shape \in ListShapes :
       allLinksWithContext = [j \in 1..n |-> CollectedLink(shape, j)]
  /\ uniqueLinksByURL = << >>
  /\ linksToProcess = << >>
  /\ processedLinks = << >>
  /\ calls = << >>
  /\ response = Null
  /\ match = Null
  /\ returned = Null
  /\ suspended = Null
  /\ PageMounted

NextLimit ==
  \/ Deduplicate
  \/ TestConnection
  \/ PrimaryCall
  \/ FallbackCall

LimitSpec == InitLimit /\ [][NextLimit]_vars

\* ------------------------------------------------------------------------
\* Two requests in one process.  The handler runs one request at a time and
\* lets go only at an await; the variables above are those of the request
\* that runs, suspended holds those of the request that waits.
\* ------------------------------------------------------------------------
\* everything POST declares with const or let, for the request that runs
Locals ==
  [formDataOk |-> formDataOk,
   files |-> files,
   startDateStr |-> startDateStr,
   endDateStr |-> endDateStr,
   pc |-> pc,
   startDate |-> startDate,
   endDate |-> endDate,
   fileIdx |-> fileIdx,
   entryIdx |-> entryIdx,
   i |-> i,
   currentDate |-> currentDate,
   currentLine |-> currentLine,
   messagesInRange |-> messagesInRange,
   messagesWithLinks |-> messagesWithLinks,
   chatFilesFound |-> chatFilesFound,
   totalChatFilesFound |-> totalChatFilesFound,
   allLinksWithContext |-> allLinksWithContext,
   uniqueLinksByURL |-> uniqueLinksByURL,
   linksToProcess |-> linksToProcess,
   processedLinks |-> processedLinks,
   calls |-> calls,
   response |-> response]

\* the steps of the model that begin with an await (formData, arrayBuffer,
\* loadAsync, async('string'), the collaborator calls); a finished request
\* leaves the processor as well
AwaitPoints == {"start", "nextFile", "stdLoop", "altLoop", "fileDone",
                "testConn", "primary", "fallback", "done"}

\* a resumption that finds the list of collected links where the other
\* request left it, as if the list were declared at module level
YieldSharedLinks ==
  /\ pc \in AwaitPoints
  /\ suspended # Null
  /\ suspended[1].pc # "done"
  /\ suspended' = Some(Locals)
  /\ formDataOk' = suspended[1].formDataOk
  /\ files' = suspended[1].files
  /\ startDateStr' = suspended[1].startDateStr
  /\ endDateStr' = suspended[1].endDateStr
  /\ pc' = suspended[1].pc
  /\ startDate' = suspended[1].startDate
  /\ endDate' = suspended[1].endDate
  /\ fileIdx' = suspended[1].fileIdx
  /\ entryIdx' = suspended[1].entryIdx
  /\ i' = suspended[1].i
  /\ currentDate' = suspended[1].currentDate
  /\ currentLine' = suspended[1].currentLine
  /\ messagesInRange' = suspended[1].messagesInRange
  /\ messagesWithLinks' = suspended[1].messagesWithLinks
  /\ chatFilesFound' = suspended[1].chatFilesFound
  /\ totalChatFilesFound' = suspended[1].totalChatFilesFound
  /\ allLinksWithContext' = allLinksWithContext
  /\ uniqueLinksByURL' = suspended[1].uniqueLinksByURL
  /\ linksToProcess' = suspended[1].linksToProcess
  /\ processedLinks' = suspended[1].processedLinks
  /\ calls' = suspended[1].calls
  /\ response' = suspended[1].response
  /\ UNCHANGED << side, tz, match, returned, pageVars >>

\* the running request waits at an await and the other request resumes
Yield ==
  /\ pc \in AwaitPoints
  /\ suspended # Null
  /\ suspended[1].pc # "done"
  /\ suspended' = Some(Locals)
  /\ formDataOk' = suspended[1].formDataOk
  /\ files' = suspended[1].files
  /\ startDateStr' = suspended[1].startDateStr
  /\ endDateStr' = suspended[1].endDateStr
  /\ pc' = suspended[1].pc
  /\ startDate' = suspended[1].startDate
  /\ endDate' = suspended[1].endDate
  /\ fileIdx' = suspended[1].fileIdx
  /\ entryIdx' = suspended[1].entryIdx
  /\ i' = suspended[1].i
  /\ currentDate' = suspended[1].currentDate
  /\ currentLine' = suspended[1].currentLine
  /\ messagesInRange' = suspended[1].messagesInRange
  /\ messagesWithLinks' = suspended[1].messagesWithLinks
  /\ chatFilesFound' = suspended[1].chatFilesFound
  /\ totalChatFilesFound' = suspended[1].totalChatFilesFound
  /\ allLinksWithContext' = suspended[1].allLinksWithContext
  /\ uniqueLinksByURL' = suspended[1].uniqueLinksByURL
  /\ linksToProcess' = suspended[1].linksToProcess
  /\ processedLinks' = suspended[1].processedLinks
  /\ calls' = suspended[1].calls
  /\ response' = suspended[1].response
  /\ UNCHANGED << side, tz, match, returned, pageVars >>

\* the uploads of the two requests
ConcurrentFiles ==
  { << a >> : a \in { s \in ArchiveShapes :
                       s.name \in {"WhatsApp Chat - Solo.zip", "photos.zip"} } }
  \cup { << a, b >> : a \in { s \in ArchiveShapes : s.name = "WhatsApp Chat - Devs.zip" },
                      b \in { s \in ArchiveShapes : s.name = "WhatsApp Chat - Solo.zip" } }

\* the state of a request that has just arrived
Arrived(fs, startStr, endStr) ==
  [formDataOk |-> TRUE, files |-> fs, startDateStr |-> startStr,
   endDateStr |-> endStr, pc |-> "start", startDate |-> Null, endDate |-> Null,
   fileIdx |-> 0, entryIdx |-> 0, i |-> 0, currentDate |-> Null,
   currentLine |-> << >>, messagesInRange |-> 0, messagesWithLinks |-> 0,
   chatFilesFound |-> 0, totalChatFilesFound |-> 0,
   allLinksWithContext |-> << >>, uniqueLinksByURL |-> << >>,
   linksToProcess |-> << >>, processedLinks |-> << >>, calls |-> << >>,
   response |-> Null]

InitConcurrent ==
  /\ side \in Sides
  /\ tz \in TimeZones
  /\ match = Null
  /\ returned = Null
  /\ formDataOk = TRUE
  /\ files \in ConcurrentFiles
  /\ startDateStr \in DateInputs
  /\ endDateStr = Null
  /\ pc = "start"
  /\ startDate = Null
  /\ endDate = Null
  /\ fileIdx = 0
  /\ entryIdx = 0
  /\ i = 0
  /\ currentDate = Null
  /\ currentLine = << >>
  /\ messagesInRange = 0
  /\ messagesWithLinks = 0
  /\ chatFilesFound = 0
  /\ totalChatFilesFound = 0
  /\ allLinksWithContext = << >>
  /\ uniqueLinksByURL = << >>
  /\ linksToProcess = << >>
  /\ processedLinks = << >>
  /\ calls = << >>
  /\ response = Null
  /\ \E fs \in ConcurrentFiles, endStr \in DateInputs :
       suspended = Some(Arrived(fs, Null, endStr))
  /\ PageMounted

NextConcurrent == Next \/ Yield

ConcurrentSpec == InitConcurrent /\ [][NextConcurrent]_vars

\* ------------------------------------------------------------------------
\* One archive with several entries: which entries are read as transcripts
\* ------------------------------------------------------------------------
EntryShapes ==
  { Entry("WhatsApp Chat with Solo_chat.txt", TRUE,
          << << "[25/03/2024, 14:30:45]", "Dana:", "w", "https://a.io/x" >> >>),
    Entry("_chat.txt", FALSE, << >>),
    Entry("WhatsApp Chat - Devs.txt", TRUE,
          << << "[24/03/2024, 23:00:00]", "Dana:", "tool.dev" >> >>),
    Entry("WhatsApp Chat - Devs.txt", FALSE, << >>),
    Entry("notes.txt", TRUE,
          << << "[26/03/24, 01:00]", "Avi:", "https://a.io/x" >> >>),
    Entry("notes.txt", TRUE, << << "w" >> >>),
    Entry("photo.jpg", TRUE,
          << << "[24/03/2024, 23:00:00]", "Dana:", "tool.dev" >> >>) }

\* zip.files is keyed by entry name: the names of an archive are distinct
EntryLists ==
  { es \in SeqsUpTo(EntryShapes, MaxEntries) :
      \A j, k \in 1..Len(es) : j # k => es[j].name # es[k].name }

InitSelection ==
  /\ side \in Sides
  /\ tz \in TimeZones
  /\ formDataOk = TRUE
  /\ \E es \in EntryLists :
       files = << Archive("WhatsApp Chat - Solo.zip", TRUE, TRUE, es) >>
  /\ startDateStr = Null
  /\ endDateStr = Null
  /\ pc = "start"
  /\ startDate = Null
  /\ endDate = Null
  /\ fileIdx = 0
  /\ entryIdx = 0
  /\ i = 0
  /\ currentDate = Null
  /\ currentLine = << >>
  /\ messagesInRange = 0
  /\ messagesWithLinks = 0
  /\ chatFilesFound = 0
  /\ totalChatFilesFound = 0
  /\ allLinksWithContext = << >>
  /\ uniqueLinksByURL = << >>
  /\ linksToProcess = << >>
  /\ processedLinks = << >>
  /\ calls = << >>
  /\ response = Null
  /\ match = Null
  /\ returned = Null
  /\ suspended = Null
  /\ PageMounted

SelectionSpec == InitSelection /\ [][Next]_vars

\* ------------------------------------------------------------------------
\* The sender extraction on its own: opening lines of both export formats
\* ------------------------------------------------------------------------
\* what follows the timestamp on an opening line
HeaderMarks == { << >>, << "_" >>, << "~", "_" >>, << "-", "_" >>,
                 << "-", "_", "~", "_" >>, << "~", "~", "_" >> }

HeaderNames == { << "Dana:" >>, << "Dana", "_", "Cohen", "Avi:" >>,
                 << "Dana", "_", "requested to join" >>, << "Dana" >> }

HeaderTexts == { << >>, << "_", "w" >>, << "_", "https://a.io/x" >> }

OpeningLines ==
  { << s >> \o m \o n \o x :
      s \in DOMAIN StampTable, m \in HeaderMarks, n \in HeaderNames,
      x \in HeaderTexts }

InitSender ==
  /\ side \in Sides
  /\ tz = 0
  /\ formDataOk = TRUE
  /\ files = << >>
  /\ startDateStr = Null
  /\ endDateStr = Null
  /\ pc = "sender"
  /\ startDate = Null
  /\ endDate = Null
  /\ fileIdx = 0
  /\ entryIdx = 0
  /\ i = 0
  /\ currentDate = Null
  /\ currentLine \in OpeningLines
  /\ messagesInRange = 0
  /\ messagesWithLinks = 0
  /\ chatFilesFound = 0
  /\ totalChatFilesFound = 0
  /\ allLinksWithContext = << >>
  /\ uniqueLinksByURL = << >>
  /\ linksToProcess = << >>
  /\ processedLinks = << >>
  /\ calls = << >>
  /\ response = Null
  /\ match = Null
  /\ returned = Null
  /\ suspended = Null
  /\ PageMounted

\* const sender = extractSender(currentLine)
ExtractSender ==
  /\ pc = "sender"
  /\ returned' = extractSender(currentLine)
  /\ pc' = "sent"
  /\ UNCHANGED << side, tz, formDataOk, files, startDateStr, endDateStr, match,
                  suspended, startDate, endDate, fileIdx, entryIdx, loopVars,
                  chatFilesFound, totalChatFilesFound, allLinksWithContext,
                  aiVars, response, pageVars >>

NextSender == ExtractSender

SenderSpec == InitSender /\ [][NextSender]_vars

\* ------------------------------------------------------------------------
\* One long message: a link with up to 150 characters on either side.  Every
\* token of the text other than the link stands for a single character.
\* ------------------------------------------------------------------------
ContextPads == {0, 50, 99, 100, 101, 150}

LongLine(before, after) ==
  << "[25/03/2024, 14:30:45]", "Dana:" >> \o Chars(before)
    \o << "https://a.io/x" >> \o Chars(after)

InitContext ==
  /\ side \in Sides
  /\ tz = 0
  /\ formDataOk = TRUE
  /\ \E n \in {"WhatsApp Chat with Solo_chat.txt", "WhatsApp Chat - Devs.txt"},
        before \in ContextPads, after \in ContextPads :
       files = << Archive("WhatsApp Chat - Solo.zip", TRUE, TRUE,
                          << Entry(n, TRUE, << LongLine(before, after) >>) >>) >>
  /\ startDateStr = Null
  /\ endDateStr = Null
  /\ pc = "start"
  /\ startDate = Null
  /\ endDate = Null
  /\ fileIdx = 0
  /\ entryIdx = 0
  /\ i = 0
  /\ currentDate = Null
  /\ currentLine = << >>
  /\ messagesInRange = 0
  /\ messagesWithLinks = 0
  /\ chatFilesFound = 0
  /\ totalChatFilesFound = 0
  /\ allLinksWithContext = << >>
  /\ uniqueLinksByURL = << >>
  /\ linksToProcess = << >>
  /\ processedLinks = << >>
  /\ calls = << >>
  /\ response = Null
  /\ match = Null
  /\ returned = Null
  /\ suspended = Null
  /\ PageMounted

ContextSpec == InitContext /\ [][Next]_vars

\* ------------------------------------------------------------------------
\* The upload page (component Home of src/unnamed/part_003)
\*
\* Time is counted in seconds since the page was mounted.  A state update
\* is committed by the step that calls the setter; the effect that depends
\* on [loading, processStep] runs in a later step of the same instant, and
\* a timer that is due at that instant may run before it.
\* ------------------------------------------------------------------------
\* what no step of the page writes: the state of the request at the server
requestVars == << side, tz, formDataOk, files, startDateStr, endDateStr, pc,
                  startDate, endDate, fileIdx, entryIdx, loopVars, chatFilesFound,
                  totalChatFilesFound, allLinksWithContext, aiVars, response,
                  match, returned, suspended >>

\* type ProcessStep
ProcessSteps == {"idle", "uploading", "filtering", "extracting", "analyzing", "complete"}

\* delays of the three setTimeout calls of the progress effect, in seconds
TimerDelays == [filtering |-> 2, extracting |-> 4, analyzing |-> 6]

\* the effect is run again when one of its dependencies has changed
EffectDue == effectDeps # << loading, processStep >>

TimerDue == \E t \in timers : t.due <= now

\* the body of the progress effect: three timers while the upload step is
\* shown, none otherwise
ScheduledTimers ==
  IF loading /\ processStep = "uploading"
  THEN { [step |-> s, due |-> now + TimerDelays[s]] : s \in DOMAIN TimerDelays }
  ELSE {}

\* useEffect(..., [loading, processStep]): the cleanup of the previous run
\* clears its timers, then the body runs
RunEffect ==
  /\ EffectDue
  /\ timers' = ScheduledTimers
  /\ effectDeps' = << loading, processStep >>
  /\ UNCHANGED << loading, processStep, submitPc, now, submits, pageError, requestVars >>

\* the callback of a timer that is due: setProcessStep(step).  An effect
\* that is still to run for the last render runs before the next render.
FireTimer ==
  \E t \in timers :
    /\ t.due <= now
    /\ processStep' = t.step
    /\ timers' = IF EffectDue THEN ScheduledTimers ELSE timers \ {t}
    /\ effectDeps' = IF EffectDue THEN << loading, processStep >> ELSE effectDeps
    /\ UNCHANGED << loading, submitPc, now, submits, pageError, requestVars >>

\* handleSubmit up to the await of fetch; the button is disabled while
\* loading, and a file has been chosen.  Like every step of handleSubmit
\* that sets state, it is rendered after the effect of the last render.
Submit ==
  /\ ~EffectDue
  /\ submitPc \in {"idle", "handledOk", "handledFailed"}
  /\ ~loading
  /\ submits < MaxSubmits
  /\ loading' = TRUE
  /\ processStep' = "uploading"
  /\ submitPc' = "awaitFetch"
  /\ submits' = submits + 1
  /\ pageError' = ""
  /\ UNCHANGED << timers, effectDeps, now, requestVars >>

\* fetch resolves: a response that is not ok is read before anything is
\* set, an ok response sets the step to complete and is then read
ResponseArrives ==
  /\ ~EffectDue
  /\ submitPc = "awaitFetch"
  /\ \E ok \in BOOLEAN :
       IF ok
       THEN /\ processStep' = "complete"
            /\ submitPc' = "awaitJson"
       ELSE /\ processStep' = processStep
            /\ submitPc' = "awaitErrorJson"
  /\ UNCHANGED << loading, timers, effectDeps, now, submits, pageError, requestVars >>

\* fetch rejects: catch sets the error to the message of the rejection,
\* then finally
FetchFails ==
  /\ ~EffectDue
  /\ submitPc = "awaitFetch"
  /\ processStep' = "idle"
  /\ loading' = FALSE
  /\ submitPc' = "handledFailed"
  /\ pageError' = "fetch failed"
  /\ UNCHANGED << timers, effectDeps, now, submits, requestVars >>

\* the body of the ok response has been read: setSummary, then finally
SummaryRead ==
  /\ ~EffectDue
  /\ submitPc = "awaitJson"
  /\ loading' = FALSE
  /\ submitPc' = "handledOk"
  /\ UNCHANGED << processStep, timers, effectDeps, now, submits, pageError, requestVars >>

\* the body of the failed response has been read: its message is thrown,
\* caught and shown, then finally
ErrorRead ==
  /\ ~EffectDue
  /\ submitPc = "awaitErrorJson"
  /\ processStep' = "idle"
  /\ loading' = FALSE
  /\ submitPc' = "handledFailed"
  /\ pageError' = "errorData.message"
  /\ UNCHANGED << timers, effectDeps, now, submits, requestVars >>

\* a second passes; the effect and the timers that are due run first
Tick ==
  /\ now < MaxTime
  /\ ~EffectDue
  /\ ~TimerDue
  /\ now' = now + 1
  /\ UNCHANGED << loading, processStep, timers, effectDeps, submitPc, submits, pageError, requestVars >>

NextPage ==
  \/ Submit
  \/ RunEffect
  \/ FireTimer
  \/ ResponseArrives
  \/ FetchFails
  \/ SummaryRead
  \/ ErrorRead
  \/ Tick

\* the page as mounted, with no request at the server
InitPage ==
  /\ side = "HEAD"
  /\ tz = 0
  /\ formDataOk = TRUE
  /\ files = << >>
  /\ startDateStr = Null
  /\ endDateStr = Null
  /\ pc = "page"
  /\ startDate = Null
  /\ endDate = Null
  /\ fileIdx = 0
  /\ entryIdx = 0
  /\ i = 0
  /\ currentDate = Null
  /\ currentLine = << >>
  /\ messagesInRange = 0
  /\ messagesWithLinks = 0
  /\ chatFilesFound = 0
  /\ totalChatFilesFound = 0
  /\ allLinksWithContext = << >>
  /\ uniqueLinksByURL = << >>
  /\ linksToProcess = << >>
  /\ processedLinks = << >>
  /\ calls = << >>
  /\ response = Null
  /\ match = Null
  /\ returned = Null
  /\ suspended = Null
  /\ PageMounted

PageSpec == InitPage /\ [][NextPage]_vars

TypeOK ==
  /\ pc \in {"start", "nextFile", "stdLoop", "stdLines", "altLoop", "altLines",
             "fileDone", "dedup", "testConn", "primary", "fallback", "done"}
  /\ (pc = "done") <=> (response # Null)

\* ------------------------------------------------------------------------
\* Properties
\* ------------------------------------------------------------------------
\* the deduplication step has run in this request
DedupDone == pc \in {"testConn", "primary", "fallback"}
             \/ (pc = "done" /\ response[1].status \in {200, 404})
             \/ (pc = "done" /\ calls # << >>)

\* position of the first record of links with this url
FirstIndexOf(links, url) ==
  CHOOSE j \in 1..Len(links) :
    links[j].url = url /\ \A j2 \in 1..(j - 1) : links[j2].url # url

\* C1: after deduplication every distinct URL of the collected list is
\* represented exactly once, by the first-encountered record with that URL
\* (same context, date, group and sender), in first-encounter order; every
\* later record with the same URL is gone.
C1_DedupKeepsFirst ==
  DedupDone =>
    LET all == allLinksWithContext
        u   == uniqueLinksByURL
    IN  /\ \A j \in 1..Len(all) :
             Cardinality({ k \in 1..Len(u) : u[k].url = all[j].url }) = 1
        /\ \A k \in 1..Len(u) :
             /\ \E j \in 1..Len(all) : all[j].url = u[k].url
             /\ u[k] = all[FirstIndexOf(all, u[k].url)]
        /\ \A k1, k2 \in 1..Len(u) :
             k1 < k2 => FirstIndexOf(all, u[k1].url) < FirstIndexOf(all, u[k2].url)

\* two messages with different timestamps reference the same URL, and the
\* deduplication has dropped the later one
C1_Witness ==
  /\ DedupDone
  /\ \E j1, j2 \in 1..Len(allLinksWithContext) :
       /\ j1 < j2
       /\ allLinksWithContext[j1].url = allLinksWithContext[j2].url
       /\ allLinksWithContext[j1].date # allLinksWithContext[j2].date
       /\ \E k \in 1..Len(uniqueLinksByURL) :
            uniqueLinksByURL[k] = allLinksWithContext[j1]
  /\ Len(uniqueLinksByURL) < Len(allLinksWithContext)

\* C2: deduplicating the deduplicated list again gives the same list, record
\* for record and in the same order.
C2_DedupIdempotent ==
  DedupDone => Dedup(uniqueLinksByURL) = uniqueLinksByURL

\* the deduplication removed at least two records and kept at least two
C2_Witness ==
  /\ DedupDone
  /\ Len(uniqueLinksByURL) >= 2
  /\ Len(allLinksWithContext) >= Len(uniqueLinksByURL) + 2

\* ------------------------------------------------------------------------
\* Reference notions the properties below are stated with
\* ------------------------------------------------------------------------
\* the messages of a transcript: a line with a timestamp opens a message,
\* every other line continues the message in progress, lines before the
\* first timestamp belong to no message
RECURSIVE MessagesFrom(_, _)
MessagesFrom(lines, msgs) ==
  IF lines = << >> THEN msgs
  ELSE LET line == Head(lines) IN
       IF datePatternMatch(line)
       THEN MessagesFrom(Tail(lines),
                         Append(msgs, [opening |-> line, text |-> line,
                                       continuation |-> << >>,
                                       date |-> extractDateFromMessage(line)]))
       ELSE IF msgs = << >> THEN MessagesFrom(Tail(lines), msgs)
       ELSE MessagesFrom(Tail(lines),
                         [msgs EXCEPT ![Len(msgs)].text = AppendContinuation(@, line),
                                      ![Len(msgs)].continuation = @ \o line])

MessagesOf(lines) == MessagesFrom(lines, << >>)

\* the entries of an archive that POST reads as transcripts
IsStandardEntry(e) == EntryNames[e.name].endsWithChatTxt

IsAlternativeEntry(e) ==
  EntryNames[e.name].hasTxt /\ e.readable /\ hasWhatsAppFormat(e.content)

RECURSIVE EntryMessages(_, _)
EntryMessages(entries, standard) ==
  IF entries = << >> THEN << >>
  ELSE LET e == Head(entries) IN
       (IF standard
        THEN (IF IsStandardEntry(e) /\ e.readable THEN MessagesOf(e.content) ELSE << >>)
        ELSE (IF IsAlternativeEntry(e) THEN MessagesOf(e.content) ELSE << >>))
       \o EntryMessages(Tail(entries), standard)

ArchiveMessages(archive) ==
  EntryMessages(archive.entries,
                \E k \in 1..Len(archive.entries) : IsStandardEntry(archive.entries[k]))

RECURSIVE FilesMessages(_)
FilesMessages(fs) ==
  IF fs = << >> THEN << >>
  ELSE ArchiveMessages(Head(fs)) \o FilesMessages(Tail(fs))

\* all messages of the transcripts of the request, in processing order
RequestMessages == FilesMessages(files)

\* the URLs the pattern finds in a text, and how many matches there are
UrlsOf(text) ==
  { UrlMatchIn(text[k]) : k \in 1..Len(text) } \ { Undefined }

NumMatches(text) ==
  Cardinality({ k \in 1..Len(text) : UrlMatchIn(text[k]) # Undefined })

RECURSIVE SumMatches(_)
SumMatches(msgs) ==
  IF msgs = << >> THEN 0
  ELSE NumMatches(Head(msgs).text) + SumMatches(Tail(msgs))

\* the range test as the interface states it: whole UTC days of the bounds
StartOfDayUTC(t) == (t \div SecondsPerDay) * SecondsPerDay

EndOfDayUTC(t) == (t \div SecondsPerDay) * SecondsPerDay + SecondsPerDay - 1

ExpectedInclude(t) ==
  /\ (startDateStr = Null \/ t >= StartOfDayUTC(startDateStr[1]))
  /\ (endDateStr = Null \/ t <= EndOfDayUTC(endDateStr[1]))

\* a message every range check of the handler lets through
PlainlyInRange(m) ==
  m.date # Null /\ DayInRange(m.date[1]) /\ InstantInRange(m.date[1])

\* a message at least one range check of the handler lets through
PossiblyInRange(m) ==
  m.date # Null /\ (DayInRange(m.date[1]) \/ InstantInRange(m.date[1]))

AllFilesRead == pc \in {"dedup", "testConn", "primary", "fallback"}

\* C3: for the message in progress, the day-granular check and the instant
\* comparison of the handler both include it exactly when its timestamp
\* lies between the start of the start day and the end of the end day.
C3_RangeChecksAgree ==
  (pc \in {"stdLines", "altLines"} /\ currentDate # Null) =>
    /\ DayInRange(currentDate[1]) = ExpectedInclude(currentDate[1])
    /\ InstantInRange(currentDate[1]) = ExpectedInclude(currentDate[1])

\* C4: every collected record carries a URL of some message of the request
\* whose own timestamp passes the range test (even reading that test in the
\* way most favourable to the code).
C4_NoLinkFromExcludedMessage ==
  \A k \in 1..Len(allLinksWithContext) :
    \E n \in 1..Len(RequestMessages) :
      /\ allLinksWithContext[k].url \in UrlsOf(RequestMessages[n].text)
      /\ PossiblyInRange(RequestMessages[n])

\* C5: when every message of the request is in range, has a valid
\* timestamp, is no system message and lacks the special-case domain, the
\* number of records collected equals the number of URL matches in the
\* joined texts of the messages.
C5_LinkCountConservation ==
  (/\ AllFilesRead
   /\ \A n \in 1..Len(RequestMessages) :
        /\ PlainlyInRange(RequestMessages[n])
        /\ ~isSystemMessage(RequestMessages[n].text)
        /\ ~Includes(RequestMessages[n].text, {"get-zenith.com"}))
  => Len(allLinksWithContext) = SumMatches(RequestMessages)

\* number of lines of a transcript that match the timestamp pattern
RECURSIVE CountMatching(_)
CountMatching(lines) ==
  IF lines = << >> THEN 0
  ELSE (IF datePatternMatch(Head(lines)) THEN 1 ELSE 0) + CountMatching(Tail(lines))

\* number of lines that match the timestamp pattern and parse to a date
RECURSIVE CountParsed(_)
CountParsed(lines) ==
  IF lines = << >> THEN 0
  ELSE (IF extractDateFromMessage(Head(lines)) # Null THEN 1 ELSE 0)
       + CountParsed(Tail(lines))

NoDateFilter == startDateStr = Null /\ endDateStr = Null

\* C6 as stated: with no date filter, the number of messages counted for an
\* entry when its last message is finalized equals the number of its lines
\* that match the timestamp pattern.
C6_CountEqualsMatchingLines ==
  [][ ((StandardLast \/ AlternativeLast) /\ NoDateFilter)
        => messagesInRange' = CountMatching(Lines) ]_vars

\* C6 as amended: with no date filter, the number of messages counted for an
\* entry when its last message is finalized equals the number of its lines
\* that match the timestamp pattern and whose timestamp parses to a date.
C6_CountEqualsParsedLines ==
  [][ ((StandardLast \/ AlternativeLast) /\ NoDateFilter)
        => messagesInRange' = CountParsed(Lines) ]_vars

\* an entry with a valid and an invalid timestamp line has been finalized
\* with one message counted
C6_Witness ==
  /\ NoDateFilter
  /\ pc \in {"stdLoop", "altLoop"}
  /\ entryIdx = 2
  /\ i > Len(files[fileIdx].entries[1].content)
  /\ CountMatching(files[fileIdx].entries[1].content) = 2
  /\ CountParsed(files[fileIdx].entries[1].content) = 1
  /\ messagesInRange = 1

\* C7: every collected record carries a URL of some message of the request
\* whose full joined text contains none of the membership-change phrases.
C7_SystemMessageYieldsNothing ==
  \A k \in 1..Len(allLinksWithContext) :
    \E n \in 1..Len(RequestMessages) :
      /\ allLinksWithContext[k].url \in UrlsOf(RequestMessages[n].text)
      /\ ~isSystemMessage(RequestMessages[n].text)

\* C8: every collected record carries the timestamp of a message of the
\* request whose text contains the record's URL.
C8_RecordCarriesOwnTimestamp ==
  \A k \in 1..Len(allLinksWithContext) :
    \E n \in 1..Len(RequestMessages) :
      /\ allLinksWithContext[k].url \in UrlsOf(RequestMessages[n].text)
      /\ RequestMessages[n].date = Some(allLinksWithContext[k].date)

\* C9: once all files are read, every URL on a continuation line of an
\* in-range, non-system message has a record with the timestamp of the
\* message's opening line.
C9_ContinuationUrlExtracted ==
  AllFilesRead =>
    \A n \in 1..Len(RequestMessages) :
      LET m == RequestMessages[n] IN
      (PlainlyInRange(m) /\ ~isSystemMessage(m.text)) =>
        \A url \in UrlsOf(m.continuation) :
          \E k \in 1..Len(allLinksWithContext) :
            /\ allLinksWithContext[k].url = url
            /\ allLinksWithContext[k].date = m.date[1]

PrimaryFailed ==
  \E k \in 1..Len(calls) : calls[k].kind = "primary" /\ calls[k].outcome # "json"

FallbackIssued == \E k \in 1..Len(calls) : calls[k].kind = "fallback"

FallbackFailed ==
  \E k \in 1..Len(calls) :
    calls[k].kind = "fallback" /\ calls[k].outcome \notin {"text", "empty"}

\* C10: a request whose primary summarization call failed in any way has
\* issued the fallback request and ends with status 200, with the raw link
\* listing when the fallback failed too.
C10_DegradationLadder ==
  (pc = "done" /\ PrimaryFailed) =>
    /\ FallbackIssued
    /\ response[1].status = 200
    /\ (FallbackFailed => response[1].summary = RawListing(processedLinks))

\* ------------------------------------------------------------------------
\* Collaborator calls of a request
\* ------------------------------------------------------------------------
CallsOfKind(kind) == { k \in 1..Len(calls) : calls[k].kind = kind }

\* C11: a request that has reached the summarization stage has issued exactly
\* one summarization call, at most one fallback call and that one only after
\* a timeout of the summarization call, and no other collaborator call.
C11_OneSummarizationCall ==
  (pc = "done" /\ calls # << >>) =>
    /\ Cardinality(CallsOfKind("primary")) = 1
    /\ Cardinality(CallsOfKind("fallback")) <= 1
    /\ \A k \in CallsOfKind("fallback") :
         k > 1 /\ calls[k - 1].kind = "primary" /\ IsTimeout(calls[k - 1].outcome)
    /\ \A k \in 1..Len(calls) : calls[k].kind \in {"primary", "fallback"}

\* ------------------------------------------------------------------------
\* Outcomes of a request
\* ------------------------------------------------------------------------
DateFilterSupplied == startDateStr # Null \/ endDateStr # Null

\* C12: when the deduplication step is left with zero links, the request ends
\* there with status 404 and without any collaborator call, and the message
\* is the date-range variant exactly when a start or end bound was supplied.
C12_ZeroLinksGives404 ==
  [][ (pc = "dedup" /\ Dedup(allLinksWithContext) = << >>) =>
        /\ pc' = "done"
        /\ response'[1].status = 404
        /\ response'[1].message =
             (IF DateFilterSupplied THEN "no links in date range"
              ELSE "no links in files")
        /\ calls' = << >> ]_vars

\* a request whose only link lies outside the date range has ended with 404
C12_Witness ==
  /\ pc = "done"
  /\ response[1].status = 404
  /\ response[1].message = "no links in date range"
  /\ DateFilterSupplied
  /\ calls = << >>
  /\ \E n \in 1..Len(RequestMessages) : UrlsOf(RequestMessages[n].text) # {}

\* C13: a request without files, or whose body cannot be parsed as a form,
\* has ended with status 400 without opening an archive and without any
\* collaborator call.
C13_BadRequestGives400 ==
  (pc = "done" /\ (~formDataOk \/ files = << >>)) =>
    /\ response[1].status = 400
    /\ fileIdx = 0
    /\ calls = << >>

\* an archive that cannot be read (arrayBuffer) or decompressed (loadAsync)
IsCorrupt(file) == ~file.readable \/ ~file.valid

CorruptIndexes == { k \in 1..Len(files) : IsCorrupt(files[k]) }

FirstCorrupt == CHOOSE k \in CorruptIndexes : \A k2 \in CorruptIndexes : k <= k2

\* C14: a request with an archive that cannot be read or decompressed has
\* ended with status 500 and an error text naming the first such archive;
\* nothing collected before reaches deduplication or a summary, the
\* archives after it were not opened and no collaborator call was made.
C14_CorruptArchiveAborts ==
  (pc = "done" /\ formDataOk /\ CorruptIndexes # {}) =>
    /\ response[1].status = 500
    /\ \E k \in 1..Len(response[1].error) :
         response[1].error[k] = files[FirstCorrupt].name
    /\ "summary" \notin response[1].keys
    /\ fileIdx = FirstCorrupt
    /\ uniqueLinksByURL = << >>
    /\ linksToProcess = << >>
    /\ calls = << >>

\* a request whose first archive gave a link and whose second archive is
\* corrupt has ended with 500
C14_Witness ==
  /\ pc = "done"
  /\ Len(files) = 2
  /\ ~IsCorrupt(files[1])
  /\ IsCorrupt(files[2])
  /\ allLinksWithContext # << >>
  /\ response[1].status = 500

\* an archive POST finds no transcript in: no entry named *_chat.txt and no
\* .txt entry that reads as a chat
HasNoTranscript(file) ==
  /\ ~IsCorrupt(file)
  /\ \A k \in 1..Len(file.entries) :
       /\ ~IsStandardEntry(file.entries[k])
       /\ ~IsAlternativeEntry(file.entries[k])

\* an archive with a transcript entry that cannot be extracted as text
HasUnreadableEntry(file) ==
  /\ ~IsCorrupt(file)
  /\ \E k \in 1..Len(file.entries) :
       EntryNames[file.entries[k].name].hasTxt /\ ~file.entries[k].readable

\* C15: in a request without corrupt archives, an archive without transcript
\* or with an entry that cannot be extracted ends nothing: every archive has
\* been processed when the request ends, the request fails with 404 exactly
\* when no link at all was collected, and otherwise the links collected from
\* the other archives were handed to the summarization.
C15_MissingTranscriptIsNotFatal ==
  (/\ pc = "done"
   /\ formDataOk
   /\ CorruptIndexes = {}
   /\ \E k \in 1..Len(files) : HasNoTranscript(files[k]) \/ HasUnreadableEntry(files[k]))
  => /\ fileIdx = Len(files) + 1
     /\ (response[1].status = 404) = (allLinksWithContext = << >>)
     /\ allLinksWithContext # << >> =>
          /\ linksToProcess = Dedup(allLinksWithContext)
          /\ calls # << >>
          /\ response[1].message \notin {"no links in files", "no links in date range",
                                        "file processing error"}

\* a request whose first archive holds no transcript and whose second archive
\* gave a link has ended with a summary
C15_Witness ==
  /\ pc = "done"
  /\ Len(files) = 2
  /\ HasNoTranscript(files[1])
  /\ allLinksWithContext # << >>
  /\ response[1].status = 200

\* C16: the response of a finished request has status 200, 400, 404 or 500;
\* its body has a summary exactly when the status is 200 and a message for
\* every other status.
C16_ResponseShape ==
  pc = "done" =>
    /\ response[1].status \in {200, 400, 404, 500}
    /\ ("summary" \in response[1].keys) = (response[1].status = 200)
    /\ response[1].status # 200 => "message" \in response[1].keys

\* a request has ended with a summary after its summarization call timed out
C16_Witness ==
  /\ pc = "done"
  /\ response[1].status = 200
  /\ response[1].keys = {"summary"}
  /\ \E k \in 1..Len(calls) : calls[k].kind = "fallback"

\* ------------------------------------------------------------------------
\* The date parser
\* ------------------------------------------------------------------------
\* the four-digit year a two-digit year stands for
ResolvedYear(y) == IF y < 100 THEN (IF y <= 49 THEN 2000 + y ELSE 1900 + y) ELSE y

\* the capture groups name no valid calendar date and time of day
InvalidComponents(f) ==
  \/ f.month < 1 \/ f.month > 12
  \/ f.day < 1 \/ f.day > DaysInMonthOf(ResolvedYear(f.year), f.month)
  \/ f.hour < 0 \/ f.hour > 23
  \/ f.minute < 0 \/ f.minute > 59
  \/ (f.second # -1 /\ (f.second < 0 \/ f.second > 59))

\* C17: the date parser returns null or one instant for every combination of
\* capture groups, and null whenever the month is outside 1..12, the day is
\* outside the days of that month in the resolved four-digit year, the hour
\* is outside 0..23 or the minute or second is outside 0..59.
C17_ParserRejectsInvalid ==
  pc = "parsed" =>
    /\ returned = Null \/ (Len(returned) = 1 /\ returned[1] \in Int)
    /\ InvalidComponents(match[1]) => returned = Null

\* the parser has returned null for 29/02/23, a day that the year 2023 lacks
C17_Witness ==
  /\ pc = "parsed"
  /\ match[1].day = 29 /\ match[1].month = 2 /\ match[1].year = 23
  /\ match[1].hour = 23 /\ match[1].minute = 59 /\ match[1].second = -1
  /\ returned = Null

\* ------------------------------------------------------------------------
\* The limits on the links of the summarization request
\* ------------------------------------------------------------------------
\* s can be obtained from t by deleting records, keeping the order
RECURSIVE IsSubsequence(_, _)
IsSubsequence(s, t) ==
  IF s = << >> THEN TRUE
  ELSE IF t = << >> THEN FALSE
  ELSE IF Head(s) = Head(t) THEN IsSubsequence(Tail(s), Tail(t))
  ELSE IsSubsequence(s, Tail(t))

\* url length plus clipped context length, summed over the records
RECURSIVE CumulativeSize(_)
CumulativeSize(links) ==
  IF links = << >> THEN 0
  ELSE UrlLength(Head(links).url) + Min(Len(Head(links).messageContext), 300)
       + CumulativeSize(Tail(links))

SummarizationIssued == \E k \in 1..Len(calls) : calls[k].kind = "primary"

\* the summarization call came back with a reply the formatter can render
RenderableReply ==
  \E k \in 1..Len(calls) :
    /\ calls[k].kind = "primary"
    /\ calls[k].outcome = "json"
    /\ ~renderSummaryFromJson(calls[k].reply, linksToProcess, "", "").threw

\* C18: once the summarization request has been issued, the links placed in
\* it are at most 30, their cumulative size (url length plus clipped context
\* length) is within the character budget, they are an order-preserving
\* subsequence of the deduplicated list, and a request whose reply can be
\* rendered ends with status 200 however many links were dropped.
C18_RequestWithinLimits ==
  SummarizationIssued =>
    /\ Len(processedLinks) <= MAX_LINKS
    /\ CumulativeSize(processedLinks) <= MAX_CHARS
    /\ IsSubsequence(processedLinks, uniqueLinksByURL)
    /\ (pc = "done" /\ RenderableReply) => response[1].status = 200

\* both limits have dropped links, a smaller link after a dropped one was
\* kept, and the request has ended with a summary
C18_Witness ==
  /\ pc = "done"
  /\ response[1].status = 200
  /\ Len(uniqueLinksByURL) > MAX_LINKS
  /\ Len(linksToProcess) = MAX_LINKS
  /\ Len(processedLinks) < MAX_LINKS
  /\ processedLinks # SubSeq(linksToProcess, 1, Len(processedLinks))

\* ------------------------------------------------------------------------
\* The digest formatter
\* ------------------------------------------------------------------------
\* C19: a request whose summarization call came back with a reply that
\* parses as JSON has ended with status 200 and a rendered digest, whatever
\* the shape of the category values and entries of the reply.
C19_ValidJsonIsRendered ==
  \A k \in 1..Len(calls) :
    (pc = "done" /\ calls[k].kind = "primary" /\ calls[k].outcome = "json") =>
      /\ response[1].status = 200
      /\ response[1].summary # << >>
      /\ response[1].summary[1] = Line("greeting", << >>)

\* ------------------------------------------------------------------------
\* What a request collects when it is handled alone
\* ------------------------------------------------------------------------
RECURSIVE CollectStandard(_, _, _, _, _)
CollectStandard(lines, k, cur, curDate, groupName) ==
  IF k > Len(lines) THEN FinalizeStandard(cur, curDate, groupName).links
  ELSE IF datePatternMatch(lines[k])
       THEN LET newDate == extractDateFromMessage(lines[k]) IN
            FinalizeStandard(cur, curDate, groupName).links
            \o DateLineStandard(lines[k], newDate, groupName)
            \o CollectStandard(lines, k + 1, lines[k], newDate, groupName)
       ELSE CollectStandard(lines, k + 1, AppendContinuation(cur, lines[k]),
                            curDate, groupName)

RECURSIVE CollectAlternative(_, _, _, _, _)
CollectAlternative(lines, k, cur, curDate, groupName) ==
  IF k > Len(lines) THEN FinalizeAlternativeLast(cur, curDate, groupName).links
  ELSE IF datePatternMatch(lines[k])
       THEN FinalizeAlternativePrev(cur, curDate, lines[k], groupName).links
            \o CollectAlternative(lines, k + 1, lines[k],
                                  extractDateFromMessage(lines[k]), groupName)
       ELSE CollectAlternative(lines, k + 1, AppendContinuation(cur, lines[k]),
                               curDate, groupName)

RECURSIVE CollectEntries(_, _)
CollectEntries(entries, standard) ==
  IF entries = << >> THEN << >>
  ELSE LET e == Head(entries) IN
       (IF standard /\ IsStandardEntry(e) /\ e.readable
        THEN CollectStandard(e.content, 1, << >>, Null, extractGroupName(e.name))
        ELSE IF ~standard /\ IsAlternativeEntry(e)
        THEN CollectAlternative(e.content, 1, << >>, Null, extractGroupName(e.name))
        ELSE << >>)
       \o CollectEntries(Tail(entries), standard)

RECURSIVE CollectFiles(_)
CollectFiles(fs) ==
  IF fs = << >> THEN << >>
  ELSE CollectEntries(Head(fs).entries,
                      \E k \in 1..Len(Head(fs).entries) :
                        IsStandardEntry(Head(fs).entries[k]))
       \o CollectFiles(Tail(fs))

\* the response a request with these links and these collaborator calls gets
\* when handled alone
ResponseAlone(collected, theCalls) ==
  IF Dedup(collected) = << >>
  THEN [status |-> 404, summary |-> Null]
  ELSE LET last == theCalls[Len(theCalls)] IN
       IF last.kind = "test" THEN [status |-> 500, summary |-> Null]
       ELSE IF last.kind = "fallback"
       THEN [status |-> 200,
             summary |-> IF last.outcome = "text"
                         THEN << Line("text of the collaborator", << >>) >>
                         ELSE IF last.outcome = "empty"
                         THEN << Line("could not produce a summary", << >>) >>
                         ELSE RawListing(reduceLinks(SubSeq(Dedup(collected), 1,
                                                            Min(Len(Dedup(collected)), MAX_LINKS))))]
       ELSE IF last.outcome = "json"
       THEN LET rendered == renderSummaryFromJson(last.reply,
                                                  SubSeq(Dedup(collected), 1,
                                                         Min(Len(Dedup(collected)), MAX_LINKS)),
                                                  dateRangeInfo, summaryDateInfo)
            IN  IF rendered.threw THEN [status |-> 500, summary |-> Null]
                ELSE [status |-> 200, summary |-> rendered.output]
       ELSE [status |-> 500, summary |-> Null]

\* C20: whatever the other request did while this one waited, the links this
\* request has collected when its files are read are those it collects when
\* handled alone, and its response is the one its own files, date bounds and
\* collaborator replies give when handled alone.
C20_RequestsIndependent ==
  /\ pc = "dedup" => allLinksWithContext = CollectFiles(files)
  /\ (pc = "done" /\ formDataOk /\ files # << >> /\ CorruptIndexes = {}) =>
       /\ allLinksWithContext = CollectFiles(files)
       /\ response[1].status = ResponseAlone(CollectFiles(files), calls).status
       /\ response[1].summary = ResponseAlone(CollectFiles(files), calls).summary

\* this request has read all its files and is about to deduplicate, while the
\* other request waits in the middle of its archives with links of its own
\* already collected
C20_Witness ==
  /\ pc = "dedup"
  /\ suspended # Null
  /\ suspended[1].pc \in {"nextFile", "stdLoop", "altLoop", "fileDone"}
  /\ suspended[1].fileIdx <= Len(suspended[1].files)
  /\ allLinksWithContext # << >>
  /\ suspended[1].allLinksWithContext # << >>
  /\ suspended[1].allLinksWithContext # allLinksWithContext

\* C21: every collected record has a parsed timestamp and carries a URL of
\* some message of the request whose timestamp parsed: a message whose
\* opening line matches the timestamp pattern but fails date parsing
\* contributes no record, neither does any of its continuation lines.
C21_UnparsedMessageDropped ==
  \A k \in 1..Len(allLinksWithContext) :
    /\ allLinksWithContext[k].date \in Int
    /\ \E n \in 1..Len(RequestMessages) :
         /\ RequestMessages[n].date # Null
         /\ allLinksWithContext[k].url \in UrlsOf(RequestMessages[n].text)

\* a prefix of the line matches the timestamp pattern
OpensWithTimestamp(line) == line # << >> /\ Head(line) \in DOMAIN StampTable

\* C22: in both line loops, a line of which no prefix matches the timestamp
\* pattern never opens a message: with a message in progress the line is
\* appended to it, the message is not finalized and its timestamp stays.
C22_OnlyPrefixOpensMessage ==
  [][ (/\ pc \in {"stdLines", "altLines"}
       /\ i <= Len(Lines)
       /\ ~OpensWithTimestamp(Lines[i])
       /\ currentLine # << >>)
      => /\ currentLine' = AppendContinuation(currentLine, Lines[i])
         /\ currentDate' = currentDate
         /\ allLinksWithContext' = allLinksWithContext
         /\ messagesInRange' = messagesInRange ]_vars

\* the archive being read holds an entry whose name ends in _chat.txt
ArchiveHasStandardEntry ==
  \E k \in 1..Len(files[fileIdx].entries) : IsStandardEntry(files[fileIdx].entries[k])

\* the handler starts reading the current entry as a transcript
StartsTranscript == pc \in {"stdLoop", "altLoop"} /\ pc' \in {"stdLines", "altLines"}

\* C23 as stated: an entry is read as a transcript only if its name ends in
\* _chat.txt or, when the archive has no such entry, if it is a .txt entry
\* whose name hints at chat data and one of whose first 10 lines matches the
\* timestamp pattern.
C23_SelectionNeedsNameHint ==
  [][ StartsTranscript =>
        \/ IsStandardEntry(CurrentEntry)
        \/ /\ ~ArchiveHasStandardEntry
           /\ EntryNames[CurrentEntry.name].hasTxt
           /\ EntryNames[CurrentEntry.name].hintsChat
           /\ hasWhatsAppFormat(CurrentEntry.content) ]_vars

\* C23, amended: every readable entry whose name ends in _chat.txt is read as
\* a transcript and, when the archive has such an entry, no other entry is;
\* when it has none, an entry is read as a transcript exactly if its name
\* contains .txt, it can be extracted and one of its first 10 lines matches
\* the timestamp pattern, whether or not its name hints at chat data.
C23_EntrySelection ==
  [][ /\ StartsTranscript =>
           \/ IsStandardEntry(CurrentEntry)
           \/ /\ ~ArchiveHasStandardEntry
              /\ EntryNames[CurrentEntry.name].hasTxt
              /\ hasWhatsAppFormat(CurrentEntry.content)
      /\ (/\ pc = "stdLoop"
          /\ entryIdx <= Len(files[fileIdx].entries)
          /\ IsStandardEntry(CurrentEntry)
          /\ CurrentEntry.readable) => pc' = "stdLines"
      /\ (/\ pc = "altLoop"
          /\ entryIdx <= Len(files[fileIdx].entries)
          /\ EntryNames[CurrentEntry.name].hasTxt
          /\ CurrentEntry.readable
          /\ hasWhatsAppFormat(CurrentEntry.content)) =>
           /\ ~ArchiveHasStandardEntry
           /\ pc' = "altLines" ]_vars

\* the lines of notes.txt, a name without a hint at chat data in an archive
\* without a _chat.txt entry, are being read as a transcript
C23_Witness ==
  /\ pc = "altLines"
  /\ ~ArchiveHasStandardEntry
  /\ CurrentEntry.name = "notes.txt"
  /\ ~EntryNames[CurrentEntry.name].hintsChat
  /\ Len(files[fileIdx].entries) >= 2

\* leading "-" and "~" marks, with the blanks around them
RECURSIVE WithoutLeadingMarks(_)
WithoutLeadingMarks(t) ==
  IF t # << >> /\ Head(t) \in {"-", "~", "_", "NL"}
  THEN WithoutLeadingMarks(Tail(t)) ELSE t

\* the sender of an opening line: what stands between the timestamp, with its
\* separator, and the next colon, without leading marks and without a
\* trailing "requested to join"; Null when no colon follows the timestamp
SenderOfHeader(line) ==
  LET c == FirstColon(line, 2) IN
  IF c = 0 THEN Null
  ELSE Trim(BeforeRequestedToJoin(
         WithoutLeadingMarks(SubSeq(line, 2, c - 1) \o << ColonPrefix[line[c]] >>)))

\* C24: for an opening line in either timestamp format, extractSender returns
\* the text between the timestamp and the next colon, cleaned of leading
\* marks and of a trailing "requested to join", and returns nothing exactly
\* when no colon follows the timestamp.
C24_SenderOfEveryFormat ==
  pc = "sent" => returned = SenderOfHeader(currentLine)

\* number of characters of a text, counting a link with its length and
\* every other token as a single character (a timestamp or a name is longer:
\* the number is a lower bound)
RECURSIVE TextLength(_)
TextLength(t) ==
  IF t = << >> THEN 0
  ELSE IF Len(t) = 1
  THEN (IF UrlMatchIn(t[1]) # Undefined THEN UrlLength(UrlMatchIn(t[1]))
        ELSE 1)
  ELSE TextLength(SubSeq(t, 1, Len(t) \div 2))
       + TextLength(SubSeq(t, Len(t) \div 2 + 1, Len(t)))

\* position of the first token of t in which the URL is matched, 0 if none
UrlPosition(t, url, k) ==
  LET positions == { j \in k..Len(t) : UrlMatchIn(t[j]) = url } IN
  IF positions = {} THEN 0
  ELSE CHOOSE j \in positions : \A j2 \in positions : j <= j2

\* 100 characters before the match to 100 characters after it, within the text
ContextWindow(message, k) ==
  SubSeq(message, Max(1, k - 100), Min(Len(message), k + 100))

\* the cleaned text of the only message of the request
OnlyMessage == CleanTimestamp(files[1].entries[1].content[1])

\* C25: the context of every collected record is the window of the message
\* from 100 characters before its URL to 100 characters after it; it holds
\* the URL and is at most 200 characters longer than the URL.
C25_ContextIsWindow ==
  \A k \in 1..Len(allLinksWithContext) :
    LET link == allLinksWithContext[k] IN
    /\ link.messageContext =
         ContextWindow(OnlyMessage, UrlPosition(OnlyMessage, link.url, 1))
    /\ Includes(link.messageContext, {link.url})
    /\ TextLength(link.messageContext) <= UrlLength(link.url) + 200

EstimatedSize(link) ==
  UrlLength(link.url) + Min(Len(link.messageContext), 300) + 50

\* the estimated size of the links kept among the first j of the list
RECURSIVE KeptSize(_, _)
KeptSize(links, j) ==
  IF j = 0 THEN 0
  ELSE LET before == KeptSize(links, j - 1)
           own    == EstimatedSize(links[j])
       IN  IF before + own <= 12000 THEN before + own ELSE before

\* the j-th link fits beside the links kept before it
Fits(links, j) == KeptSize(links, j - 1) + EstimatedSize(links[j]) <= 12000

\* C27: the links placed in the prompt are, in their order, exactly those of
\* the links handed to generateSummary that fit beside the links kept before
\* them: a link that does not fit is left out and the scan goes on.
C27_KeptIffFits ==
  SummarizationIssued =>
    /\ IsSubsequence(processedLinks, linksToProcess)
    /\ \A j \in 1..Len(linksToProcess) :
         (\E m \in 1..Len(processedLinks) : processedLinks[m] = linksToProcess[j])
           <=> Fits(linksToProcess, j)

\* a link that did not fit was left out and a later, smaller one was kept
C27_Witness ==
  /\ SummarizationIssued
  /\ \E j, m \in 1..Len(linksToProcess) :
       /\ j < m
       /\ ~Fits(linksToProcess, j)
       /\ Fits(linksToProcess, m)
       /\ EstimatedSize(linksToProcess[m]) < EstimatedSize(linksToProcess[j])
       /\ \E n \in 1..Len(processedLinks) : processedLinks[n] = linksToProcess[m]
       /\ \A n \in 1..Len(processedLinks) : processedLinks[n] # linksToProcess[j]

\* ------------------------------------------------------------------------
\* The entries of the digest
\* ------------------------------------------------------------------------
\* the last call of the request is a summarization that came back with JSON
\* whose categories are arrays of link objects
WellFormedReply ==
  /\ calls # << >>
  /\ calls[Len(calls)].kind = "primary"
  /\ calls[Len(calls)].outcome = "json"
  /\ \A c \in 1..Len(calls[Len(calls)].reply) :
       LET links == calls[Len(calls)].reply[c].links IN
       /\ links.kind = "array"
       /\ \A e \in 1..Len(links.items) :
            /\ links.items[e].kind = "object"
            /\ links.items[e].keyPoints.kind \in {"array", "undefined"}

\* the group and the message text a LinkRecord carries
GroupOfRecord(link) ==
  IF link.groupName # Undefined THEN link.groupName ELSE link.fileName

TextOfRecord(link) ==
  IF link.fullMessageText # Null THEN link.fullMessageText ELSE link.messageContext

\* the lines of one entry: group and message context are there exactly when
\* the url of the entry is the url of one of the records, and are those of
\* the first such record
EntryLines(e, records) ==
  LET hits  == { j \in 1..Len(records) : records[j].url = e.url }
      first == records[CHOOSE j \in hits : \A j2 \in hits : j <= j2]
  IN  << Line("name", << OrElse(e.name, "unknown name"),
                         OrElse(e.type, "unknown type") >>),
         Line("description", << OrElse(e.description, "no description") >>) >>
      \o (IF hits # {}
          THEN << Line("message context", TextOfRecord(first)),
                  Line("group", << GroupOfRecord(first) >>) >>
          ELSE << >>)
      \o (IF e.keyPoints.items # << >>
          THEN << Line("key points", e.keyPoints.items) >> ELSE << >>)
      \o << Line("user value", << OrElse(e.userValue, "value not stated") >>) >>
      \o (IF e.complexity # Undefined
          THEN << Line("complexity", << e.complexity >>) >> ELSE << >>)
      \o << Line("link", << e.url >>) >>

RECURSIVE EntriesLines(_, _)
EntriesLines(items, records) ==
  IF items = << >> THEN << >>
  ELSE EntryLines(Head(items), records) \o EntriesLines(Tail(items), records)

RECURSIVE CategoriesLines(_, _)
CategoriesLines(reply, records) ==
  IF reply = << >> THEN << >>
  ELSE << Line("category", << Head(reply).category >>) >>
       \o EntriesLines(Head(reply).links.items, records)
       \o CategoriesLines(Tail(reply), records)

\* C28: the digest of a request answered from a well-formed reply holds,
\* after its three heading lines, one entry for every link object of the
\* reply, in the order of the reply, with the group and the message text of
\* the first record of that url exactly when the request has such a record.
C28_EntriesFollowReply ==
  (pc = "done" /\ WellFormedReply) =>
    /\ response[1].status = 200
    /\ SubSeq(response[1].summary, 4, Len(response[1].summary)) =
         CategoriesLines(calls[Len(calls)].reply, linksToProcess)


\* ------------------------------------------------------------------------
\* C29  the progress steps of a pending submission
\* ------------------------------------------------------------------------
ProgressOrder == << "uploading", "filtering", "extracting", "analyzing" >>

\* the progress steps that come after this one
LaterSteps(step) ==
  { ProgressOrder[k] : k \in { n \in 1..Len(ProgressOrder) :
      \E m \in 1..Len(ProgressOrder) : ProgressOrder[m] = step /\ m < n } }

\* C29: while a submitted request is still pending, processStep is one of
\* uploading, filtering, extracting, analyzing, reached in that order, and
\* once the progress effect has run for a change of processStep the timer
\* of every step still to come remains scheduled, so that analyzing is
\* reached
C29_LaterStepsStayScheduled ==
  (submitPc = "awaitFetch" /\ ~EffectDue) =>
    /\ processStep \in { ProgressOrder[k] : k \in 1..Len(ProgressOrder) }
    /\ \A s \in LaterSteps(processStep) : \E t \in timers : t.step = s


\* ------------------------------------------------------------------------
\* C30  the page after the response has been handled
\* ------------------------------------------------------------------------
\* C30: once the response to a submission has been handled, loading is
\* false and processStep is complete after a successful response and idle
\* after a failed one, in every state until the next submission: no
\* progress timer scheduled during the request moves processStep afterwards
C30_HandledStepStays ==
  /\ submitPc = "handledOk" => (~loading /\ processStep = "complete")
  /\ submitPc = "handledFailed" => (~loading /\ processStep = "idle")

=============================================================================
